---- MODULE Spec2Model ----
(***************************************************************************)
(* A model of svgtoexc: the SVG -> Excalidraw conversion engine            *)
(* (src/converter/convert.ts, svg/converters.ts, svg/path.ts,              *)
(* svg/geometry.ts, svg/style.ts, svg/transform.ts).                       *)
(*                                                                         *)
(* Representation.                                                         *)
(*  - A string the code inspects (tag names, attribute values) is a        *)
(*    sequence of one-character strings, so that toLowerCase, trim,        *)
(*    includes and parseFloat are computed and not assumed.  The absent    *)
(*    value (null) is Null, a sequence no string equals.                   *)
(*  - A document is a sequence of element nodes in document (pre-)order;   *)
(*    each node has a tag, the index of its parent (0: none), its          *)
(*    attributes and its text.                                             *)
(*  - Numbers are integers.  getPolygonArea returns |sum| / 2 in the code; *)
(*    the model keeps |sum| (twice the area), which orders areas the same  *)
(*    way.  isContainedIn's /2 and *0.9 are cleared of denominators.       *)
(***************************************************************************)
EXTENDS Integers, Sequences, FiniteSets, TLC

VARIABLES
  markup,            \* the input of convertSvgToExcalidraw: [parseError, nodes]
  pc,                \* position in convertSvgToExcalidraw
  svgRoot,           \* index of the root <svg> found by parseSvg (0 before)
  styleContext,      \* the StyleContext built by createStyleContext
  nodes,             \* the filtered list of supported nodes (indices)
  cursor,            \* index in nodes of the next node to convert
  elements,          \* the output element list being built
  convertedSubpaths, \* pathConverter's convertedSubpaths of the last path node
  emittedFrom,       \* history: for each element, <<node index, subpath position>>
  result,            \* what the call returned / raised
  previous,          \* what the call before this one returned, on the same markup
  windingInput,      \* the point sequence getWindingOrder is called with
  windingOf,         \* the results of getWindingOrder for it and for its reversal
  platform,          \* process.platform of the machine the TUI runs on
  state,             \* the TUI's AppState
  isBusy,            \* the TUI's isBusy flag
  converting,        \* where the TUI's convertCurrentInput is waiting, if it is
  copyingAgain,      \* how many calls of copyLatestResult wait for pbcopy
  exited,            \* the TUI process has exited
  observed           \* history: what the last events of the TUI did

\* what getWindingOrder is called with, and what it returned
windingVars == <<windingInput, windingOf>>

\* the terminal UI
tuiVars == <<platform, state, isBusy, converting, copyingAgain, exited, observed>>

\* what one call of convertSvgToExcalidraw does not touch
outside == <<previous, windingVars, tuiVars>>

vars == <<markup, pc, svgRoot, styleContext, nodes, cursor, elements,
          convertedSubpaths, emittedFrom, result, outside>>

\* const v = value; body(v): the value is computed once and named
With(value, Body(_)) == Body(value)

\* the array whose entries are the values of f, a function on 1..n
Array(f) == f \o <<>>


-----------------------------------------------------------------------------
(* Strings *)

Null == <<"NULL">>

EmptyStr == <<>>

UpperToLower ==
  [A |-> "a", B |-> "b", C |-> "c", D |-> "d", E |-> "e", F |-> "f", G |-> "g",
   H |-> "h", I |-> "i", J |-> "j", K |-> "k", L |-> "l", M |-> "m", N |-> "n",
   O |-> "o", P |-> "p", Q |-> "q", R |-> "r", S |-> "s", T |-> "t", U |-> "u",
   V |-> "v", W |-> "w", X |-> "x", Y |-> "y", Z |-> "z"]

\* String.prototype.toLowerCase
ToLowerCase(s) ==
  Array([i \in 1..Len(s) |->
           IF s[i] \in DOMAIN UpperToLower THEN UpperToLower[s[i]] ELSE s[i]])

IsSpace(c) == c = " "

RECURSIVE TrimStart(_)
TrimStart(s) ==
  IF Len(s) > 0 /\ IsSpace(s[1]) THEN TrimStart(Tail(s)) ELSE s

RECURSIVE TrimEnd(_)
TrimEnd(s) ==
  IF Len(s) > 0 /\ IsSpace(s[Len(s)]) THEN TrimEnd(SubSeq(s, 1, Len(s) - 1)) ELSE s

\* String.prototype.trim
Trim(s) == TrimEnd(TrimStart(s))

\* String.prototype.includes
Includes(s, needle) ==
  \E i \in 0..(Len(s) - Len(needle)) : SubSeq(s, i + 1, i + Len(needle)) = needle

\* String.prototype.startsWith
StartsWith(s, prefix) ==
  Len(s) >= Len(prefix) /\ SubSeq(s, 1, Len(prefix)) = prefix

\* JavaScript truthiness of a string-or-null value: !v is Falsy(v)
Falsy(v) == v = Null \/ v = EmptyStr

\* a ?? b
Coalesce(a, b) == IF a # Null THEN a ELSE b

DigitVal ==
  [c \in {"0", "1", "2", "3", "4", "5", "6", "7", "8", "9"} |->
     CASE c = "0" -> 0 [] c = "1" -> 1 [] c = "2" -> 2 [] c = "3" -> 3
       [] c = "4" -> 4 [] c = "5" -> 5 [] c = "6" -> 6 [] c = "7" -> 7
       [] c = "8" -> 8 [] c = "9" -> 9]

IsDigit(c) == c \in DOMAIN DigitVal

RECURSIVE DigitRun(_, _, _)
\* reads the longest run of digits at the head of s: <<value, digits read>>
DigitRun(s, acc, n) ==
  IF Len(s) > 0 /\ IsDigit(s[1])
    THEN DigitRun(Tail(s), 10 * acc + DigitVal[s[1]], n + 1)
    ELSE <<acc, n>>

\* Number.parseFloat on the integer literals of the model: leading white space,
\* an optional sign, the longest run of digits; NaN when there is no digit.
\* The result is [nan |-> BOOLEAN, v |-> Int].
ParseFloat(s) ==
  With(TrimStart(s), LAMBDA t :
    LET neg  == Len(t) > 0 /\ t[1] = "-"
        sgn  == Len(t) > 0 /\ t[1] \in {"-", "+"}
    IN  With(DigitRun(IF sgn THEN Tail(t) ELSE t, 0, 0), LAMBDA run :
          IF run[2] = 0 THEN [nan |-> TRUE, v |-> 0]
          ELSE [nan |-> FALSE, v |-> IF neg THEN 0 - run[1] ELSE run[1]]))

-----------------------------------------------------------------------------
(* The DOM: nodes of the parsed document *)

\* element.getAttribute(name): the raw value, or null
GetAttribute(doc, n, name) ==
  IF name \in DOMAIN doc[n].attrs THEN doc[n].attrs[name] ELSE Null

\* element.hasAttribute(name)
HasAttribute(doc, n, name) == name \in DOMAIN doc[n].attrs

\* element.parentElement (0: null)
ParentElement(doc, n) == doc[n].parent

\* element.tagName
TagName(doc, n) == doc[n].tag

RECURSIVE IsDescendantOf(_, _, _)
IsDescendantOf(doc, n, anc) ==
  LET p == ParentElement(doc, n)
  IN  IF p = 0 THEN FALSE
      ELSE IF p = anc THEN TRUE
      ELSE IsDescendantOf(doc, p, anc)

-----------------------------------------------------------------------------
(* Names the code writes as string literals *)

\* the tag names
Tag ==
  [svg |-> <<"s", "v", "g">>,
   g |-> <<"g">>,
   style |-> <<"s", "t", "y", "l", "e">>,
   rect |-> <<"r", "e", "c", "t">>,
   circle |-> <<"c", "i", "r", "c", "l", "e">>,
   ellipse |-> <<"e", "l", "l", "i", "p", "s", "e">>,
   line |-> <<"l", "i", "n", "e">>,
   polygon |-> <<"p", "o", "l", "y", "g", "o", "n">>,
   polyline |-> <<"p", "o", "l", "y", "l", "i", "n", "e">>,
   path |-> <<"p", "a", "t", "h">>,
   text |-> <<"t", "e", "x", "t">>,
   defs |-> <<"d", "e", "f", "s">>,
   symbol |-> <<"s", "y", "m", "b", "o", "l">>,
   clipPath |-> <<"c", "l", "i", "p", "P", "a", "t", "h">>,
   mask |-> <<"m", "a", "s", "k">>,
   marker |-> <<"m", "a", "r", "k", "e", "r">>,
   pattern |-> <<"p", "a", "t", "t", "e", "r", "n">>,
   lineargradient |-> <<"l", "i", "n", "e", "a", "r", "g", "r", "a", "d", "i", "e", "n", "t">>,
   radialgradient |-> <<"r", "a", "d", "i", "a", "l", "g", "r", "a", "d", "i", "e", "n", "t">>,
   filter |-> <<"f", "i", "l", "t", "e", "r">>,
   stop |-> <<"s", "t", "o", "p">>,
   tspan |-> <<"t", "s", "p", "a", "n">>]

\* the attribute and property names
Attr ==
  [style |-> <<"s", "t", "y", "l", "e">>,
   class |-> <<"c", "l", "a", "s", "s">>,
   transform |-> <<"t", "r", "a", "n", "s", "f", "o", "r", "m">>,
   display |-> <<"d", "i", "s", "p", "l", "a", "y">>,
   visibility |-> <<"v", "i", "s", "i", "b", "i", "l", "i", "t", "y">>,
   opacity |-> <<"o", "p", "a", "c", "i", "t", "y">>,
   fill |-> <<"f", "i", "l", "l">>,
   stroke |-> <<"s", "t", "r", "o", "k", "e">>,
   stroke_width |-> <<"s", "t", "r", "o", "k", "e", "-", "w", "i", "d", "t", "h">>,
   fill_rule |-> <<"f", "i", "l", "l", "-", "r", "u", "l", "e">>,
   marker_start |-> <<"m", "a", "r", "k", "e", "r", "-", "s", "t", "a", "r", "t">>,
   marker_end |-> <<"m", "a", "r", "k", "e", "r", "-", "e", "n", "d">>,
   d |-> <<"d">>,
   x |-> <<"x">>,
   y |-> <<"y">>,
   width |-> <<"w", "i", "d", "t", "h">>,
   height |-> <<"h", "e", "i", "g", "h", "t">>,
   rx |-> <<"r", "x">>,
   ry |-> <<"r", "y">>,
   cx |-> <<"c", "x">>,
   cy |-> <<"c", "y">>,
   r |-> <<"r">>,
   x1 |-> <<"x", "1">>,
   y1 |-> <<"y", "1">>,
   x2 |-> <<"x", "2">>,
   y2 |-> <<"y", "2">>,
   points |-> <<"p", "o", "i", "n", "t", "s">>,
   id |-> <<"i", "d">>,
   font_size |-> <<"f", "o", "n", "t", "-", "s", "i", "z", "e">>,
   text_anchor |-> <<"t", "e", "x", "t", "-", "a", "n", "c", "h", "o", "r">>,
   dominant_baseline |-> <<"d", "o", "m", "i", "n", "a", "n", "t", "-", "b", "a", "s", "e", "l", "i", "n", "e">>,
   stop_color |-> <<"s", "t", "o", "p", "-", "c", "o", "l", "o", "r">>]

\* the values
Value ==
  [none |-> <<"n", "o", "n", "e">>,
   hidden |-> <<"h", "i", "d", "d", "e", "n">>,
   transparent |-> <<"t", "r", "a", "n", "s", "p", "a", "r", "e", "n", "t">>,
   black |-> <<"#", "0", "0", "0", "0", "0", "0">>,
   nonzero |-> <<"n", "o", "n", "z", "e", "r", "o">>,
   evenodd |-> <<"e", "v", "e", "n", "o", "d", "d">>,
   dot |-> <<"d", "o", "t">>,
   circle |-> <<"c", "i", "r", "c", "l", "e">>,
   bar |-> <<"b", "a", "r">>,
   url |-> <<"u", "r", "l", "(">>,
   middle |-> <<"m", "i", "d", "d", "l", "e">>,
   central |-> <<"c", "e", "n", "t", "r", "a", "l">>,
   end |-> <<"e", "n", "d">>,
   urlHash |-> <<"u", "r", "l", "(", "#">>]

-----------------------------------------------------------------------------
(* convert.ts: which nodes are converted *)

SUPPORTED_TAGS ==
  {Tag.rect, Tag.circle, Tag.ellipse, Tag.line, Tag.polygon, Tag.polyline, Tag.path, Tag.text}

NON_RENDERED_CONTAINER_TAGS ==
  {Tag.defs, Tag.symbol, Tag.clipPath, Tag.mask, Tag.marker, Tag.pattern,
   Tag.lineargradient, Tag.radialgradient, Tag.filter}

RECURSIVE IndexOf(_, _, _)
\* String.prototype.indexOf(c): 0-based position of the first c from position i on, -1 if none
IndexOf(s, c, i) ==
  IF i >= Len(s) THEN 0 - 1
  ELSE IF s[i + 1] = c THEN i
  ELSE IndexOf(s, c, i + 1)

RECURSIVE Split(_, _)
\* String.prototype.split(c), c one character
Split(s, c) ==
  LET k == IndexOf(s, c, 0)
  IN  IF k < 0 THEN <<s>>
      ELSE <<SubSeq(s, 1, k)>> \o Split(SubSeq(s, k + 2, Len(s)), c)

\* Map.prototype.set
MapSet(m, k, v) == [x \in (DOMAIN m) \cup {k} |-> IF x = k THEN v ELSE m[x]]

\* Map.prototype.get, with null for undefined
MapGet(m, k) == IF k \in DOMAIN m THEN m[k] ELSE Null

EmptyMap == [x \in {} |-> Null]

RECURSIVE ParseInlineStyleFrom(_, _)
ParseInlineStyleFrom(decls, map) ==
  IF decls = <<>> THEN map
  ELSE
    LET declaration    == Head(decls)
        separatorIndex == IndexOf(declaration, ":", 0)
        key   == ToLowerCase(Trim(SubSeq(declaration, 1, separatorIndex)))
        value == ToLowerCase(Trim(SubSeq(declaration, separatorIndex + 2, Len(declaration))))
    IN  IF separatorIndex < 0 THEN ParseInlineStyleFrom(Tail(decls), map)
        ELSE IF ~Falsy(key) /\ ~Falsy(value)
          THEN ParseInlineStyleFrom(Tail(decls), MapSet(map, key, value))
        ELSE ParseInlineStyleFrom(Tail(decls), map)

\* convert.ts parseInlineStyle: keys and values lower-cased
ParseInlineStyle(styleText) ==
  IF Falsy(styleText) THEN EmptyMap
  ELSE ParseInlineStyleFrom(Split(styleText, ";"), EmptyMap)

RECURSIVE HasNonRenderedAncestorFrom(_, _)
HasNonRenderedAncestorFrom(doc, current) ==
  IF current = 0 THEN FALSE
  ELSE IF ToLowerCase(TagName(doc, current)) \in NON_RENDERED_CONTAINER_TAGS THEN TRUE
  ELSE HasNonRenderedAncestorFrom(doc, ParentElement(doc, current))

hasNonRenderedAncestor(doc, element) == HasNonRenderedAncestorFrom(doc, element)

\* one turn of isVisuallyHidden's loop: does `current` hide the node?
HidesHere(doc, current) ==
  LET display     == ToLowerCase(Trim(Coalesce(GetAttribute(doc, current, Attr.display), EmptyStr)))
      visibility  == ToLowerCase(Trim(Coalesce(GetAttribute(doc, current, Attr.visibility), EmptyStr)))
      opacityAttr == Trim(Coalesce(GetAttribute(doc, current, Attr.opacity), EmptyStr))
  IN  With(ParseInlineStyle(GetAttribute(doc, current, Attr.style)), LAMBDA styleMap :
        LET styleDisplay    == MapGet(styleMap, Attr.display)
            styleVisibility == MapGet(styleMap, Attr.visibility)
            styleOpacity    == MapGet(styleMap, Attr.opacity)
        IN  \/ display = Value.none \/ styleDisplay = Value.none
            \/ visibility = Value.hidden \/ styleVisibility = Value.hidden
            \/ With(IF styleOpacity # Null THEN ParseFloat(styleOpacity)
                    ELSE IF ~Falsy(opacityAttr) THEN ParseFloat(opacityAttr)
                    ELSE [nan |-> TRUE, v |-> 0],
                    LAMBDA opacityValue : ~opacityValue.nan /\ opacityValue.v <= 0))

RECURSIVE IsVisuallyHiddenFrom(_, _)
IsVisuallyHiddenFrom(doc, current) ==
  IF current = 0 THEN FALSE
  ELSE IF HidesHere(doc, current) THEN TRUE
  ELSE IsVisuallyHiddenFrom(doc, ParentElement(doc, current))

isVisuallyHidden(doc, element) == IsVisuallyHiddenFrom(doc, element)

shouldConvertNode(doc, node) ==
  IF hasNonRenderedAncestor(doc, node) THEN FALSE
  ELSE IF isVisuallyHidden(doc, node) THEN FALSE
  ELSE TRUE

\* document.querySelector("svg"): the first <svg> element in document order (0: none)
QuerySvgRoot(doc) ==
  IF \E n \in 1..Len(doc) : TagName(doc, n) = Tag.svg
    THEN CHOOSE n \in 1..Len(doc) :
           /\ TagName(doc, n) = Tag.svg
           /\ \A m \in 1..(n - 1) : TagName(doc, m) # Tag.svg
    ELSE 0

\* root.querySelectorAll(tags): the descendants of root with one of the tags, in document order
QuerySelectorAll(doc, root, tags) ==
  LET Match(n) == IsDescendantOf(doc, n, root) /\ TagName(doc, n) \in tags
  IN  SelectSeq([n \in 1..Len(doc) |-> n], Match)

-----------------------------------------------------------------------------
(* geometry.ts *)

SetMin(S) == CHOOSE x \in S : \A y \in S : x <= y

SetMax(S) == CHOOSE x \in S : \A y \in S : y <= x

Abs(x) == IF x < 0 THEN 0 - x ELSE x

Xs(points) == {points[i][1] : i \in 1..Len(points)}

Ys(points) == {points[i][2] : i \in 1..Len(points)}

RECURSIVE ShoelaceFrom(_, _)
\* the loop of getWindingOrder / getPolygonArea: sum of (x2 - x1) * (y2 + y1), wrapping around
ShoelaceFrom(points, index) ==
  IF index > Len(points) THEN 0
  ELSE
    LET p1 == points[index]
        p2 == points[(index % Len(points)) + 1]
    IN  (p2[1] - p1[1]) * (p2[2] + p1[2]) + ShoelaceFrom(points, index + 1)

ShoelaceSum(points) == ShoelaceFrom(points, 1)

\* getWindingOrder, changed to report a zero sum as clockwise
getWindingOrderZeroClockwise(points) ==
  With(ShoelaceSum(points), LAMBDA sum :
    [direction |-> IF sum >= 0 THEN "clockwise" ELSE "counter-clockwise",
     signedArea |-> sum])

getWindingOrder(points) ==
  With(ShoelaceSum(points), LAMBDA sum :
    [direction |-> IF sum > 0 THEN "clockwise" ELSE "counter-clockwise",
     signedArea |-> sum])

\* Math.abs(sum / 2) in the code; the model returns Math.abs(sum), twice the area
getPolygonArea(points) == Abs(ShoelaceSum(points))

dimensionsFromPoints(points) ==
  IF Len(points) = 0 THEN <<0, 0>>
  ELSE <<SetMax(Xs(points)) - SetMin(Xs(points)), SetMax(Ys(points)) - SetMin(Ys(points))>>

getBoundingBox(points) ==
  IF Len(points) = 0 THEN [minX |-> 0, minY |-> 0, maxX |-> 0, maxY |-> 0]
  ELSE [minX |-> SetMin(Xs(points)), minY |-> SetMin(Ys(points)),
        maxX |-> SetMax(Xs(points)), maxY |-> SetMax(Ys(points))]

\* centerX = (minX + maxX) / 2 is compared doubled; areaA < areaB * 0.9 is compared times 10
isContainedIn(boxA, boxB) ==
  LET centerX2  == boxA.minX + boxA.maxX
      centerY2  == boxA.minY + boxA.maxY
      tolerance == 2
      centerInside ==
        /\ centerX2 >= 2 * (boxB.minX - tolerance)
        /\ centerX2 <= 2 * (boxB.maxX + tolerance)
        /\ centerY2 >= 2 * (boxB.minY - tolerance)
        /\ centerY2 <= 2 * (boxB.maxY + tolerance)
      areaA == (boxA.maxX - boxA.minX) * (boxA.maxY - boxA.minY)
      areaB == (boxB.maxX - boxB.minX) * (boxB.maxY - boxB.minY)
      isSmallerShape == 10 * areaA < 9 * areaB
  IN  centerInside /\ isSmallerShape

-----------------------------------------------------------------------------
(* transform.ts, with the matrix algebra of the transformation-matrix package *)

identity == [a |-> 1, b |-> 0, c |-> 0, d |-> 1, e |-> 0, f |-> 0]

\* transformation-matrix: the product m1 * m2 (m2 is applied to a point first)
Multiply(m1, m2) ==
  [a |-> m1.a * m2.a + m1.c * m2.b,
   c |-> m1.a * m2.c + m1.c * m2.d,
   e |-> m1.a * m2.e + m1.c * m2.f + m1.e,
   b |-> m1.b * m2.a + m1.d * m2.b,
   d |-> m1.b * m2.c + m1.d * m2.d,
   f |-> m1.b * m2.e + m1.d * m2.f + m1.f]

RECURSIVE compose(_)
\* transformation-matrix compose(m1, m2, ..., mk) = m1 * m2 * ... * mk
compose(matrices) ==
  IF Len(matrices) = 1 THEN matrices[1]
  ELSE Multiply(matrices[1], compose(Tail(matrices)))

\* transformation-matrix applyToPoint
applyToPoint(m, p) ==
  <<m.a * p[1] + m.c * p[2] + m.e, m.b * p[1] + m.d * p[2] + m.f>>

\* getTransformMatrix, changed to return the zero matrix for a malformed transform
getTransformMatrixMalformedZero(doc, element) ==
  IF ~HasAttribute(doc, element, Attr.transform) THEN identity
  ELSE
    LET transformAttribute == doc[element].attrs[Attr.transform]
    IN  IF transformAttribute.empty THEN identity
        ELSE IF transformAttribute.throws THEN [identity EXCEPT !.a = 0, !.d = 0]
        ELSE IF Len(transformAttribute.matrices) > 0
          THEN compose(transformAttribute.matrices)
        ELSE identity

\* The transform attribute is kept as what fromTransformAttribute / fromDefinition
\* make of its text: [empty, throws, matrices].
getTransformMatrix(doc, element) ==
  IF ~HasAttribute(doc, element, Attr.transform) THEN identity
  ELSE
    LET transformAttribute == doc[element].attrs[Attr.transform]
    IN  IF transformAttribute.empty THEN identity
        ELSE IF transformAttribute.throws THEN identity
        ELSE IF Len(transformAttribute.matrices) > 0
          THEN compose(transformAttribute.matrices)
        ELSE identity

RECURSIVE AccumulatedMatricesPushed(_, _, _)
\* AccumulatedMatrices, changed to push each matrix at the end of the list
AccumulatedMatricesPushed(doc, current, matrices) ==
  IF current = 0 THEN matrices
  ELSE IF ToLowerCase(TagName(doc, current)) = Tag.svg THEN matrices
  ELSE AccumulatedMatricesPushed(doc, ParentElement(doc, current),
                                 matrices \o <<getTransformMatrix(doc, current)>>)

RECURSIVE AccumulatedMatrices(_, _, _)
\* the while loop of getAccumulatedTransform: matrices.unshift(...) from the element upward
AccumulatedMatrices(doc, current, matrices) ==
  IF current = 0 THEN matrices
  ELSE IF ToLowerCase(TagName(doc, current)) = Tag.svg THEN matrices
  ELSE AccumulatedMatrices(doc, ParentElement(doc, current),
                           <<getTransformMatrix(doc, current)>> \o matrices)

getAccumulatedTransform(doc, element) ==
  With(AccumulatedMatrices(doc, element, <<>>), LAMBDA matrices :
    IF Len(matrices) > 0 THEN compose(matrices) ELSE identity)

transformPoint(point, matrix) == applyToPoint(matrix, point)

transformPoints(points, matrix) ==
  Array([i \in 1..Len(points) |-> transformPoint(points[i], matrix)])

-----------------------------------------------------------------------------
(* path.ts *)

\* Math.hypot(dx, dy) < 0.001, squared
isClosedSubpath(points) ==
  IF Len(points) < 2 THEN FALSE
  ELSE
    LET dx == points[Len(points)][1] - points[1][1]
        dy == points[Len(points)][2] - points[1][2]
    IN  1000000 * (dx * dx + dy * dy) < 1

RECURSIVE InheritedFillRule(_, _)
InheritedFillRule(doc, current) ==
  IF current = 0 THEN Value.nonzero
  ELSE
    LET inheritedFillRule == GetAttribute(doc, current, Attr.fill_rule)
    IN  IF ~Falsy(inheritedFillRule) THEN inheritedFillRule
        ELSE IF ToLowerCase(TagName(doc, current)) = Tag.svg THEN Value.nonzero
        ELSE InheritedFillRule(doc, ParentElement(doc, current))

getPathFillRule(doc, element) ==
  LET ownFillRule == GetAttribute(doc, element, Attr.fill_rule)
  IN  IF ~Falsy(ownFillRule) THEN ownFillRule
      ELSE InheritedFillRule(doc, ParentElement(doc, element))

\* RelativeTo, changed to leave the points where they are
RelativeToNothing(transformedPoints) == transformedPoints

\* points relative to the first point
RelativeTo(transformedPoints) ==
  Array([i \in 1..Len(transformedPoints) |->
           <<transformedPoints[i][1] - transformedPoints[1][1],
             transformedPoints[i][2] - transformedPoints[1][2]>>])

SubpathFrom(index, transformed, relativePoints) ==
  With(dimensionsFromPoints(relativePoints), LAMBDA dims :
    [index |-> index, x |-> transformed[1][1], y |-> transformed[1][2],
     width |-> dims[1], height |-> dims[2],
     relativePoints |-> relativePoints,
     bbox |-> getBoundingBox(transformed),
     area |-> getPolygonArea(relativePoints),
     windingDirection |-> getWindingOrder(relativePoints).direction,
     isHole |-> FALSE])

\* one turn of buildSubpathData's loop; index is the 0-based position in pathPoints
SubpathData(subpath, index, matrix) ==
  With(transformPoints(subpath, matrix), LAMBDA transformed :
    SubpathFrom(index, transformed, RelativeTo(transformed)))

RECURSIVE BuildSubpathDataFrom(_, _, _)
BuildSubpathDataFrom(pathPoints, i, matrix) ==
  IF i > Len(pathPoints) THEN <<>>
  ELSE (IF Len(pathPoints[i]) < 2 THEN <<>>
        ELSE <<SubpathData(pathPoints[i], i - 1, matrix)>>)
       \o BuildSubpathDataFrom(pathPoints, i + 1, matrix)

buildSubpathData(pathPoints, matrix) == BuildSubpathDataFrom(pathPoints, 1, matrix)

RECURSIVE InsertByArea(_, _)
\* stable insertion for the comparator right.area - left.area (descending area):
\* x goes after every element whose area is not smaller
InsertByArea(sorted, x) ==
  IF sorted = <<>> THEN <<x>>
  ELSE IF Head(sorted).area >= x.area THEN <<Head(sorted)>> \o InsertByArea(Tail(sorted), x)
  ELSE <<x>> \o sorted

RECURSIVE SortByAreaFrom(_, _, _)
SortByAreaFrom(subpaths, i, sorted) ==
  IF i > Len(subpaths) THEN sorted
  ELSE SortByAreaFrom(subpaths, i + 1, InsertByArea(sorted, subpaths[i]))

\* [...subpaths].sort((left, right) => right.area - left.area), a stable sort
sortedByArea(subpaths) == SortByAreaFrom(subpaths, 1, <<>>)

largestSubpathIndex(subpaths) ==
  IF Len(subpaths) = 0 THEN 0 - 1 ELSE sortedByArea(subpaths)[1].index

\* HasContainer, changed to accept a container of any winding
HasContainerAnyWinding(subpaths, subpath, useEvenOdd, largest) ==
  \E k \in 1..Len(subpaths) :
    /\ subpaths[k].index # subpath.index
    /\ isContainedIn(subpath.bbox, subpaths[k].bbox)
    /\ subpath.area < subpaths[k].area

\* the inner loop of markHoleSubpaths: some candidate container makes subpath a hole
HasContainer(subpaths, subpath, useEvenOdd, largest) ==
  \E k \in 1..Len(subpaths) :
    LET candidateContainer == subpaths[k]
        contained == isContainedIn(subpath.bbox, candidateContainer.bbox)
        smaller   == subpath.area < candidateContainer.area
        oppositeWinding ==
          subpath.windingDirection # candidateContainer.windingDirection
        windingIsCompatible ==
          useEvenOdd \/ oppositeWinding \/ candidateContainer.index = largest
    IN  /\ candidateContainer.index # subpath.index
        /\ contained /\ smaller /\ windingIsCompatible

\* markHoleSubpaths, changed to flag every subpath
markHoleSubpathsEvery(subpaths, useEvenOdd) ==
  Array([i \in 1..Len(subpaths) |-> [subpaths[i] EXCEPT !.isHole = TRUE]])

\* markHoleSubpaths mutates the isHole flags; the model returns the marked list
markHoleSubpaths(subpaths, useEvenOdd) ==
  IF Len(subpaths) < 2 THEN subpaths
  ELSE With(largestSubpathIndex(subpaths), LAMBDA largest :
         Array([i \in 1..Len(subpaths) |->
                  IF subpaths[i].index = largest THEN subpaths[i]
                  ELSE IF HasContainer(subpaths, subpaths[i], useEvenOdd, largest)
                    THEN [subpaths[i] EXCEPT !.isHole = TRUE]
                  ELSE subpaths[i]]))

\* the final map of convertPathToSubpaths
ConvertedSubpath(subpath) ==
  [x |-> subpath.x, y |-> subpath.y,
   width |-> subpath.width, height |-> subpath.height,
   relativePoints |-> subpath.relativePoints,
   isHole |-> subpath.isHole,
   windingDirection |-> subpath.windingDirection,
   isClosed |-> isClosedSubpath(subpath.relativePoints)]

\* The d attribute is kept as what pointsOnPath makes of its text:
\* [empty, throws, pathPoints].
convertPathToSubpaths(doc, element, matrix) ==
  IF ~HasAttribute(doc, element, Attr.d) THEN <<>>
  ELSE IF doc[element].attrs[Attr.d].empty THEN <<>>
  ELSE IF doc[element].attrs[Attr.d].throws THEN <<>>
  ELSE IF Len(doc[element].attrs[Attr.d].pathPoints) = 0 THEN <<>>
  ELSE With(markHoleSubpaths(buildSubpathData(doc[element].attrs[Attr.d].pathPoints, matrix),
                             ToLowerCase(Trim(getPathFillRule(doc, element))) = Value.evenodd),
            LAMBDA marked : Array([i \in 1..Len(marked) |-> ConvertedSubpath(marked[i])]))

-----------------------------------------------------------------------------
(* style.ts *)

RECURSIVE ParseCssDeclarationsFrom(_, _)
ParseCssDeclarationsFrom(decls, declarations) ==
  IF decls = <<>> THEN declarations
  ELSE
    LET declaration    == Head(decls)
        separatorIndex == IndexOf(declaration, ":", 0)
        property == ToLowerCase(Trim(SubSeq(declaration, 1, separatorIndex)))
        value    == Trim(SubSeq(declaration, separatorIndex + 2, Len(declaration)))
    IN  IF separatorIndex < 0 THEN ParseCssDeclarationsFrom(Tail(decls), declarations)
        ELSE IF ~Falsy(property) /\ ~Falsy(value)
          THEN ParseCssDeclarationsFrom(Tail(decls), MapSet(declarations, property, value))
        ELSE ParseCssDeclarationsFrom(Tail(decls), declarations)

\* style.ts parseCssDeclarations: properties lower-cased, values kept as written
parseCssDeclarations(cssText) ==
  ParseCssDeclarationsFrom(Split(cssText, ";"), EmptyMap)

IsNameChar(c) ==
  \/ c \in DOMAIN UpperToLower
  \/ \E u \in DOMAIN UpperToLower : UpperToLower[u] = c
  \/ IsDigit(c)
  \/ c \in {"_", "-"}

RECURSIVE NameRun(_, _)
\* the length of the longest run of [A-Za-z0-9_-] starting at 1-based position i
NameRun(s, i) ==
  IF i <= Len(s) /\ IsNameChar(s[i]) THEN 1 + NameRun(s, i + 1) ELSE 0

RECURSIVE ClassMatchesFrom(_, _)
\* selector.matchAll(/\.([A-Za-z0-9_-]+)/g): the class names, from position i on
ClassMatchesFrom(s, i) ==
  IF i > Len(s) THEN <<>>
  ELSE IF s[i] = "." /\ NameRun(s, i + 1) > 0
    THEN <<SubSeq(s, i + 1, i + NameRun(s, i + 1))>>
         \o ClassMatchesFrom(s, i + 1 + NameRun(s, i + 1))
  ELSE ClassMatchesFrom(s, i + 1)

RECURSIVE AddClassNames(_, _, _)
\* for (const classMatch of classMatches) { existing.set(...) ; classStyles.set(...) }
AddClassNames(classStyles, classNames, declarations) ==
  IF classNames = <<>> THEN classStyles
  ELSE
    LET className == Head(classNames)
        existing  == IF className \in DOMAIN classStyles THEN classStyles[className]
                     ELSE EmptyMap
        merged    == [k \in (DOMAIN existing) \cup (DOMAIN declarations) |->
                        IF k \in DOMAIN declarations THEN declarations[k] ELSE existing[k]]
    IN  AddClassNames(MapSet(classStyles, className, merged), Tail(classNames), declarations)

RECURSIVE AddSelectors(_, _, _)
AddSelectors(classStyles, selectors, declarations) ==
  IF selectors = <<>> THEN classStyles
  ELSE AddSelectors(
         AddClassNames(classStyles, ClassMatchesFrom(Trim(Head(selectors)), 1), declarations),
         Tail(selectors), declarations)

RECURSIVE AddBlocks(_, _)
\* cssText.matchAll(/([^{}]+)\{([^{}]+)\}/g) on flat, well-formed rule text:
\* the pieces between "}" are "selectors{declarations"
AddBlocks(classStyles, pieces) ==
  IF pieces = <<>> THEN classStyles
  ELSE
    LET piece == Head(pieces)
        brace == IndexOf(piece, "{", 0)
        selectorText    == Trim(SubSeq(piece, 1, brace))
        declarationText == Trim(SubSeq(piece, brace + 2, Len(piece)))
        declarations    == parseCssDeclarations(declarationText)
    IN  IF brace < 1 \/ brace + 1 >= Len(piece) THEN AddBlocks(classStyles, Tail(pieces))
        ELSE IF Falsy(selectorText) \/ Falsy(declarationText)
          THEN AddBlocks(classStyles, Tail(pieces))
        ELSE IF DOMAIN declarations = {} THEN AddBlocks(classStyles, Tail(pieces))
        ELSE AddBlocks(AddSelectors(classStyles, Split(selectorText, ","), declarations),
                       Tail(pieces))

RECURSIVE AddStyleBlocks(_, _, _)
AddStyleBlocks(doc, styleBlocks, classStyles) ==
  IF styleBlocks = <<>> THEN classStyles
  ELSE
    LET cssText == doc[Head(styleBlocks)].text
        pieces  == Split(cssText, "}")
    IN  AddStyleBlocks(doc, Tail(styleBlocks),
                       AddBlocks(classStyles, SubSeq(pieces, 1, Len(pieces) - 1)))

parseClassStyles(doc, root) ==
  AddStyleBlocks(doc, QuerySelectorAll(doc, root, {Tag.style}), EmptyMap)

createStyleContext(doc, root) ==
  [svgRoot |-> root, classStyles |-> parseClassStyles(doc, root)]

getInlineStyleValue(doc, element, property) ==
  LET styleAttr == GetAttribute(doc, element, Attr.style)
  IN  IF Falsy(styleAttr) THEN Null
      ELSE MapGet(parseCssDeclarations(styleAttr), ToLowerCase(property))

\* classNameAttr.split(/\s+/).filter(Boolean)
ClassNames(classNameAttr) ==
  SelectSeq(Split(classNameAttr, " "), LAMBDA t : t # EmptyStr)

RECURSIVE ClassValueFrom(_, _, _)
ClassValueFrom(classNames, context, property) ==
  IF classNames = <<>> THEN Null
  ELSE
    LET className == Head(classNames)
        value == IF className \in DOMAIN context.classStyles
                   THEN MapGet(context.classStyles[className], ToLowerCase(property))
                   ELSE Null
    IN  IF ~Falsy(value) THEN value
        ELSE ClassValueFrom(Tail(classNames), context, property)

getClassStyleValue(doc, element, context, property) ==
  LET classNameAttr == GetAttribute(doc, element, Attr.class)
  IN  IF Falsy(classNameAttr) THEN Null
      ELSE ClassValueFrom(ClassNames(classNameAttr), context, property)

RECURSIVE InheritedFrom(_, _, _)
InheritedFrom(doc, current, property) ==
  IF current = 0 THEN Null
  ELSE IF ~Falsy(GetAttribute(doc, current, property))
    THEN GetAttribute(doc, current, property)
  ELSE With(getInlineStyleValue(doc, current, property), LAMBDA inlineStyleValue :
         IF ~Falsy(inlineStyleValue) THEN inlineStyleValue
         ELSE IF ToLowerCase(TagName(doc, current)) = Tag.svg THEN Null
         ELSE InheritedFrom(doc, ParentElement(doc, current), property))

getInheritedPresentationValue(doc, element, property) ==
  InheritedFrom(doc, ParentElement(doc, element), property)

\* getPresentationValue, changed to read the direct attribute before the inline style
getPresentationValueAttributeFirst(doc, element, context, property) ==
  Coalesce(GetAttribute(doc, element, property),
    Coalesce(getInlineStyleValue(doc, element, property),
      Coalesce(getClassStyleValue(doc, element, context, property),
        getInheritedPresentationValue(doc, element, property))))

\* getPresentationValue, changed to return "" where nothing is found
getPresentationValueOrEmpty(doc, element, context, property) ==
  Coalesce(getInlineStyleValue(doc, element, property),
    Coalesce(GetAttribute(doc, element, property),
      Coalesce(getClassStyleValue(doc, element, context, property),
        Coalesce(getInheritedPresentationValue(doc, element, property), EmptyStr))))

getPresentationValue(doc, element, context, property) ==
  Coalesce(getInlineStyleValue(doc, element, property),
    Coalesce(GetAttribute(doc, element, property),
      Coalesce(getClassStyleValue(doc, element, context, property),
        getInheritedPresentationValue(doc, element, property))))

RECURSIVE IndexOfSub(_, _, _)
\* 0-based position of the first occurrence of needle in s from position i on, -1 if none
IndexOfSub(s, needle, i) ==
  IF i + Len(needle) > Len(s) THEN 0 - 1
  ELSE IF SubSeq(s, i + 1, i + Len(needle)) = needle THEN i
  ELSE IndexOfSub(s, needle, i + 1)

\* urlRef.match(/url\(#(.+?)\)/)?.[1]: the shortest non-empty text between "url(#" and ")"
GradientId(urlRef) ==
  LET k     == IndexOfSub(urlRef, Value.urlHash, 0)
      close == IndexOf(urlRef, ")", k + Len(Value.urlHash) + 1)
  IN  IF k < 0 \/ close < 0 THEN Null
      ELSE SubSeq(urlRef, k + Len(Value.urlHash) + 1, close)

\* svgRoot.querySelector("#" + id): the first descendant of the root with that id (0: none)
QueryById(doc, root, id) ==
  LET hits == SelectSeq([n \in 1..Len(doc) |-> n],
                        LAMBDA n : IsDescendantOf(doc, n, root) /\ GetAttribute(doc, n, Attr.id) = id)
  IN  IF hits = <<>> THEN 0 ELSE hits[1]

\* resolveGradientUrl's loop, changed to look at the first stop only
FirstStopColorOnly(doc, stopElements) ==
  IF stopElements = <<>> THEN Null
  ELSE With(Coalesce(GetAttribute(doc, Head(stopElements), Attr.stop_color),
                     getInlineStyleValue(doc, Head(stopElements), Attr.stop_color)),
            LAMBDA stopColor : IF ~Falsy(stopColor) THEN stopColor ELSE Null)

RECURSIVE FirstStopColor(_, _)
FirstStopColor(doc, stopElements) ==
  IF stopElements = <<>> THEN Null
  ELSE With(Coalesce(GetAttribute(doc, Head(stopElements), Attr.stop_color),
                     getInlineStyleValue(doc, Head(stopElements), Attr.stop_color)),
            LAMBDA stopColor :
              IF ~Falsy(stopColor) THEN stopColor
              ELSE FirstStopColor(doc, Tail(stopElements)))

resolveGradientUrl(doc, urlRef, root) ==
  IF ~StartsWith(urlRef, Value.url) THEN Null
  ELSE With(GradientId(urlRef), LAMBDA gradientId :
         IF Falsy(gradientId) THEN Null
         ELSE With(QueryById(doc, root, gradientId), LAMBDA gradientElement :
                IF gradientElement = 0 THEN Null
                ELSE FirstStopColor(doc, QuerySelectorAll(doc, gradientElement, {Tag.stop}))))

normalizeSvgColor(doc, color, fallback, root) ==
  IF Falsy(color) THEN fallback
  ELSE With(Trim(color), LAMBDA normalizedColor :
         IF Falsy(normalizedColor) THEN fallback
         ELSE IF normalizedColor = Value.none THEN Value.transparent
         ELSE IF StartsWith(normalizedColor, Value.url)
           THEN Coalesce(resolveGradientUrl(doc, normalizedColor, root), fallback)
         ELSE normalizedColor)

getFillColor(doc, element, context) ==
  With(getPresentationValue(doc, element, context, Attr.fill), LAMBDA raw :
    normalizeSvgColor(doc,
                      IF Falsy(raw) \/ raw = Value.none
                        THEN Coalesce(getClassStyleValue(doc, element, context, Attr.fill), raw)
                        ELSE raw,
                      Value.black, context.svgRoot))

getStrokeColor(doc, element, context) ==
  With(getPresentationValue(doc, element, context, Attr.stroke), LAMBDA raw :
    normalizeSvgColor(doc,
                      IF Falsy(raw) \/ raw = Value.none
                        THEN Coalesce(getClassStyleValue(doc, element, context, Attr.stroke), raw)
                        ELSE raw,
                      Value.transparent, context.svgRoot))

\* Number.parseFloat(raw), NaN replaced by the fallback
NumberOr(raw, fallback) ==
  IF Falsy(raw) THEN fallback
  ELSE With(ParseFloat(raw), LAMBDA value : IF value.nan THEN fallback ELSE value.v)

getNumericAttribute(doc, element, attributeName, fallback) ==
  NumberOr(GetAttribute(doc, element, attributeName), fallback)

getNumericPresentationValue(doc, element, context, property, fallback) ==
  NumberOr(getPresentationValue(doc, element, context, property), fallback)

-----------------------------------------------------------------------------
(* convert.ts createBaseElement and converters.ts *)

\* { ...base, field: value, ... }: the fields of over replace or extend those of base
Spread(base, over) == over @@ base

\* createBaseElement(); id is the outcome of randomId().  seed and versionNonce
\* (two more random integers that nothing reads) are not kept.
createBaseElement(id) ==
  [id |-> id, type |-> "line", x |-> 0, y |-> 0,
   strokeColor |-> Value.black, backgroundColor |-> Value.transparent,
   fillStyle |-> "solid", strokeWidth |-> 1, strokeStyle |-> "solid",
   strokeSharpness |-> "sharp", roughness |-> 0, opacity |-> 100,
   width |-> 0, height |-> 0, angle |-> 0, version |-> 1,
   isDeleted |-> FALSE, groupIds |-> <<>>, boundElementIds |-> Null]

OptionOr(options, name, default) ==
  IF name \in DOMAIN options THEN options[name] ELSE default

LineFrom(transformedPoints, relativePoints, doc, element, context, id, options) ==
  With(dimensionsFromPoints(relativePoints), LAMBDA dims :
    <<Spread(createBaseElement(id),
             [type |-> "line",
              x |-> transformedPoints[1][1], y |-> transformedPoints[1][2],
              width |-> dims[1], height |-> dims[2],
              points |-> relativePoints,
              backgroundColor |->
                IF "forceBackgroundColor" \in DOMAIN options
                  THEN options.forceBackgroundColor
                  ELSE getFillColor(doc, element, context),
              strokeColor |->
                IF "forceStrokeColor" \in DOMAIN options
                  THEN options.forceStrokeColor
                  ELSE getStrokeColor(doc, element, context),
              strokeWidth |-> getNumericAttribute(doc, element, Attr.stroke_width, 1),
              groupIds |-> OptionOr(options, "groupIds", <<>>)])>>)

\* returns <<>> for null, <<element>> otherwise
createLineFromPoints(transformedPoints, doc, element, context, id, options) ==
  IF Len(transformedPoints) = 0 THEN <<>>
  ELSE LineFrom(transformedPoints,
                IF OptionOr(options, "closePath", FALSE)
                  THEN Append(RelativeTo(transformedPoints), <<0, 0>>)
                  ELSE RelativeTo(transformedPoints),
                doc, element, context, id, options)

\* markerToArrowhead, changed to take "none" for the name of a marker
markerToArrowheadOfNone(markerValue) ==
  IF Falsy(markerValue) THEN "null"
  ELSE IF Includes(ToLowerCase(markerValue), Value.dot)
          \/ Includes(ToLowerCase(markerValue), Value.circle) THEN "dot"
  ELSE IF Includes(ToLowerCase(markerValue), Value.bar) THEN "bar"
  ELSE "arrow"

\* the arrowhead kinds are "arrow", "bar", "dot"; null is "null"
markerToArrowhead(markerValue) ==
  IF Falsy(markerValue) \/ markerValue = Value.none THEN "null"
  ELSE
    LET normalized == ToLowerCase(markerValue)
    IN  IF Includes(normalized, Value.dot) \/ Includes(normalized, Value.circle) THEN "dot"
        ELSE IF Includes(normalized, Value.bar) THEN "bar"
        ELSE "arrow"

getArrowheads(doc, element, context) ==
  LET markerStart == getPresentationValue(doc, element, context, Attr.marker_start)
      markerEnd   == getPresentationValue(doc, element, context, Attr.marker_end)
  IN  [startArrowhead |-> markerToArrowhead(markerStart),
       endArrowhead |-> markerToArrowhead(markerEnd)]

shouldUseArrowType(doc, element, context) ==
  With(getArrowheads(doc, element, context), LAMBDA heads :
    heads.startArrowhead # "null" \/ heads.endArrowhead # "null")

ArrowFrom(transformedPoints, relativePoints, heads, doc, element, context, id, options) ==
  With(dimensionsFromPoints(relativePoints), LAMBDA dims :
    <<Spread(createBaseElement(id),
             [type |-> "arrow",
              x |-> transformedPoints[1][1], y |-> transformedPoints[1][2],
              width |-> dims[1], height |-> dims[2],
              points |-> relativePoints,
              backgroundColor |-> Value.transparent,
              strokeColor |-> getStrokeColor(doc, element, context),
              strokeWidth |->
                getNumericPresentationValue(doc, element, context, Attr.stroke_width, 1),
              groupIds |-> OptionOr(options, "groupIds", <<>>),
              startBinding |-> Null, endBinding |-> Null,
              startArrowhead |-> heads.startArrowhead,
              endArrowhead |-> heads.endArrowhead])>>)

createArrowFromPoints(transformedPoints, doc, element, context, id, options) ==
  IF Len(transformedPoints) = 0 THEN <<>>
  ELSE ArrowFrom(transformedPoints,
                 IF OptionOr(options, "closePath", FALSE)
                   THEN Append(RelativeTo(transformedPoints), <<0, 0>>)
                   ELSE RelativeTo(transformedPoints),
                 getArrowheads(doc, element, context),
                 doc, element, context, id, options)

DrawFrom(transformedPoints, relativePoints, doc, element, context, id, options) ==
  With(dimensionsFromPoints(relativePoints), LAMBDA dims :
    <<Spread(createBaseElement(id),
             [type |-> "draw",
              x |-> transformedPoints[1][1], y |-> transformedPoints[1][2],
              width |-> dims[1], height |-> dims[2],
              points |-> relativePoints,
              backgroundColor |->
                IF "forceBackgroundColor" \in DOMAIN options
                  THEN options.forceBackgroundColor
                  ELSE getFillColor(doc, element, context),
              strokeColor |->
                IF "forceStrokeColor" \in DOMAIN options
                  THEN options.forceStrokeColor
                  ELSE getStrokeColor(doc, element, context),
              strokeWidth |-> getNumericAttribute(doc, element, Attr.stroke_width, 1),
              groupIds |-> OptionOr(options, "groupIds", <<>>)])>>)

createDrawFromPoints(transformedPoints, doc, element, context, id, options) ==
  IF Len(transformedPoints) < 2 THEN <<>>
  ELSE DrawFrom(transformedPoints, RelativeTo(transformedPoints),
                doc, element, context, id, options)

BoxFrom(type, bounds, doc, element, context, id, sharpness) ==
  Spread(createBaseElement(id),
         [type |-> type,
          x |-> bounds.minX, y |-> bounds.minY,
          width |-> bounds.maxX - bounds.minX,
          height |-> bounds.maxY - bounds.minY,
          backgroundColor |-> getFillColor(doc, element, context),
          strokeColor |-> getStrokeColor(doc, element, context),
          strokeWidth |-> getNumericAttribute(doc, element, Attr.stroke_width, 1),
          strokeSharpness |-> sharpness])

\* the element of a rectangle / ellipse fitted to the bounding box of the transformed points
BoxElement(type, points, doc, element, context, id, sharpness) ==
  BoxFrom(type, getBoundingBox(transformPoints(points, getAccumulatedTransform(doc, element))),
          doc, element, context, id, sharpness)

\* rectConverter, changed to convert a rect of any width and height
rectConverterOfAnySize(doc, element, context, rs) ==
  <<BoxElement("rectangle",
               <<<<getNumericAttribute(doc, element, Attr.x, 0),
                   getNumericAttribute(doc, element, Attr.y, 0)>>,
                 <<getNumericAttribute(doc, element, Attr.x, 0)
                     + getNumericAttribute(doc, element, Attr.width, 0),
                   getNumericAttribute(doc, element, Attr.y, 0)
                     + getNumericAttribute(doc, element, Attr.height, 0)>>>>,
               doc, element, context, rs[1], "sharp")>>

rectConverter(doc, element, context, rs) ==
  LET x      == getNumericAttribute(doc, element, Attr.x, 0)
      y      == getNumericAttribute(doc, element, Attr.y, 0)
      width  == getNumericAttribute(doc, element, Attr.width, 0)
      height == getNumericAttribute(doc, element, Attr.height, 0)
      isRounded == HasAttribute(doc, element, Attr.rx) \/ HasAttribute(doc, element, Attr.ry)
  IN  IF width <= 0 \/ height <= 0 THEN <<>>
      ELSE <<BoxElement("rectangle",
                        <<<<x, y>>, <<x + width, y>>, <<x + width, y + height>>,
                          <<x, y + height>>>>,
                        doc, element, context, rs[1],
                        IF isRounded THEN "round" ELSE "sharp")>>

circleConverter(doc, element, context, rs) ==
  LET cx     == getNumericAttribute(doc, element, Attr.cx, 0)
      cy     == getNumericAttribute(doc, element, Attr.cy, 0)
      radius == getNumericAttribute(doc, element, Attr.r, 0)
  IN  IF radius <= 0 THEN <<>>
      ELSE <<BoxElement("ellipse",
                        <<<<cx - radius, cy>>, <<cx + radius, cy>>,
                          <<cx, cy - radius>>, <<cx, cy + radius>>>>,
                        doc, element, context, rs[1], "sharp")>>

ellipseConverter(doc, element, context, rs) ==
  LET cx      == getNumericAttribute(doc, element, Attr.cx, 0)
      cy      == getNumericAttribute(doc, element, Attr.cy, 0)
      radiusX == getNumericAttribute(doc, element, Attr.rx, 0)
      radiusY == getNumericAttribute(doc, element, Attr.ry, 0)
  IN  IF radiusX <= 0 \/ radiusY <= 0 THEN <<>>
      ELSE <<BoxElement("ellipse",
                        <<<<cx - radiusX, cy>>, <<cx + radiusX, cy>>,
                          <<cx, cy - radiusY>>, <<cx, cy + radiusY>>>>,
                        doc, element, context, rs[1], "sharp")>>

\* The points attribute is kept as the list of numbers the regular expression of
\* parsePointsAttribute finds in its text; the pairing is parsePointsAttribute's loop.
parsePointsAttribute(numericValues) ==
  Array([i \in 1..(Len(numericValues) \div 2) |->
           <<numericValues[2 * i - 1], numericValues[2 * i]>>])

PointsOf(doc, element) ==
  IF HasAttribute(doc, element, Attr.points)
    THEN parsePointsAttribute(doc[element].attrs[Attr.points])
    ELSE <<>>

\* polygonConverter, changed to leave the polygon open
polygonConverterOpen(doc, element, context, rs) ==
  IF Len(PointsOf(doc, element)) < 2 THEN <<>>
  ELSE createLineFromPoints(
         transformPoints(PointsOf(doc, element), getAccumulatedTransform(doc, element)),
         doc, element, context, rs[1], [closePath |-> FALSE])

polygonConverter(doc, element, context, rs) ==
  IF Len(PointsOf(doc, element)) < 2 THEN <<>>
  ELSE createLineFromPoints(
         transformPoints(PointsOf(doc, element), getAccumulatedTransform(doc, element)),
         doc, element, context, rs[1], [closePath |-> TRUE])

polylineConverter(doc, element, context, rs) ==
  IF Len(PointsOf(doc, element)) < 2 THEN <<>>
  ELSE IF shouldUseArrowType(doc, element, context)
    THEN createArrowFromPoints(
           transformPoints(PointsOf(doc, element), getAccumulatedTransform(doc, element)),
           doc, element, context, rs[1], [closePath |-> FALSE])
  ELSE createLineFromPoints(
         transformPoints(PointsOf(doc, element), getAccumulatedTransform(doc, element)),
         doc, element, context, rs[1], [closePath |-> FALSE])

lineConverter(doc, element, context, rs) ==
  With(transformPoints(<<<<getNumericAttribute(doc, element, Attr.x1, 0),
                           getNumericAttribute(doc, element, Attr.y1, 0)>>,
                         <<getNumericAttribute(doc, element, Attr.x2, 0),
                           getNumericAttribute(doc, element, Attr.y2, 0)>>>>,
                       getAccumulatedTransform(doc, element)),
       LAMBDA transformedPoints :
         IF shouldUseArrowType(doc, element, context)
           THEN createArrowFromPoints(transformedPoints, doc, element, context, rs[1],
                                      [closePath |-> FALSE])
         ELSE createLineFromPoints(transformedPoints, doc, element, context, rs[1],
                                   [forceBackgroundColor |-> Value.transparent]))

\* PathEnvFrom, changed to call a stroke of any width visible
PathEnvFromAnyWidth(sharedGroupIds, fillColor, strokeColor, strokeWidth, fillRule) ==
  [sharedGroupIds |-> sharedGroupIds,
   fillColor |-> fillColor,
   strokeColor |-> strokeColor,
   fillRule |-> fillRule,
   hasVisibleFill |-> fillColor # Value.transparent,
   hasVisibleStroke |-> strokeColor # Value.transparent]

PathEnvFrom(sharedGroupIds, fillColor, strokeColor, strokeWidth, fillRule) ==
  [sharedGroupIds |-> sharedGroupIds,
   fillColor |-> fillColor,
   strokeColor |-> strokeColor,
   fillRule |-> fillRule,
   hasVisibleFill |-> fillColor # Value.transparent,
   hasVisibleStroke |-> strokeColor # Value.transparent /\ strokeWidth > 0]

\* PathEnv, changed to share the group id of a path with a single subpath too
PathEnvAlwaysGrouped(doc, element, context, convertedSubpathsOfPath, groupId) ==
  PathEnvFrom(<<groupId>>,
              getFillColor(doc, element, context),
              getStrokeColor(doc, element, context),
              getNumericPresentationValue(doc, element, context, Attr.stroke_width, 1),
              ToLowerCase(Trim(Coalesce(GetAttribute(doc, element, Attr.fill_rule),
                                        Value.nonzero))))

\* what pathConverter computes once per path before mapping its subpaths
PathEnv(doc, element, context, convertedSubpathsOfPath, groupId) ==
  PathEnvFrom(IF Len(convertedSubpathsOfPath) > 1 THEN <<groupId>> ELSE <<>>,
              getFillColor(doc, element, context),
              getStrokeColor(doc, element, context),
              getNumericPresentationValue(doc, element, context, Attr.stroke_width, 1),
              ToLowerCase(Trim(Coalesce(GetAttribute(doc, element, Attr.fill_rule),
                                        Value.nonzero))))

\* the fill of a closed subpath of a path with a visible fill (lines 480-490)
SubpathBackgroundColor(subpath, env, initialWinding) ==
  IF env.fillRule = Value.nonzero
    THEN IF initialWinding = "null" THEN env.fillColor
         ELSE IF subpath.windingDirection # initialWinding \/ subpath.isHole
           THEN Value.transparent
         ELSE env.fillColor
  ELSE IF subpath.isHole THEN Value.transparent
  ELSE env.fillColor

\* the closure variable initialWinding after the callback has run on subpath
NextInitialWinding(subpath, env, initialWinding) ==
  IF subpath.isClosed /\ env.hasVisibleFill /\ env.fillRule = Value.nonzero
     /\ initialWinding = "null"
    THEN subpath.windingDirection
    ELSE initialWinding

\* subpath.relativePoints.map(point => [subpath.x + point[0], subpath.y + point[1]])
AbsolutePoints(subpath) ==
  Array([i \in 1..Len(subpath.relativePoints) |->
           <<subpath.x + subpath.relativePoints[i][1],
             subpath.y + subpath.relativePoints[i][2]>>])

\* the callback of convertedSubpaths.map: <<>> for null, <<element>> otherwise
SubpathElement(doc, element, context, subpath, env, initialWinding, id) ==
  IF ~subpath.isClosed
    THEN IF ~env.hasVisibleStroke THEN <<>>
         ELSE IF shouldUseArrowType(doc, element, context)
           THEN createArrowFromPoints(AbsolutePoints(subpath), doc, element, context, id,
                                      [groupIds |-> env.sharedGroupIds])
         ELSE createLineFromPoints(AbsolutePoints(subpath), doc, element, context, id,
                                   [closePath |-> FALSE,
                                    groupIds |-> env.sharedGroupIds,
                                    forceBackgroundColor |-> Value.transparent,
                                    forceStrokeColor |-> env.strokeColor])
  ELSE IF ~env.hasVisibleFill
    THEN IF ~env.hasVisibleStroke THEN <<>>
         ELSE createLineFromPoints(AbsolutePoints(subpath), doc, element, context, id,
                                   [closePath |-> TRUE,
                                    groupIds |-> env.sharedGroupIds,
                                    forceBackgroundColor |-> Value.transparent,
                                    forceStrokeColor |-> env.strokeColor])
  ELSE With(createDrawFromPoints(
              AbsolutePoints(subpath), doc, element, context, id,
              [groupIds |-> env.sharedGroupIds,
               forceBackgroundColor |-> SubpathBackgroundColor(subpath, env, initialWinding),
               forceStrokeColor |-> env.strokeColor]),
            LAMBDA draw :
              IF draw = <<>> THEN <<>>
              ELSE IF ~env.hasVisibleStroke
                THEN <<[draw[1] EXCEPT !.strokeWidth = 0]>>
              ELSE draw)

RECURSIVE PathMapFrom(_, _, _, _, _, _, _, _)
\* convertedSubpaths.map(...).filter(item => item !== null), as pairs
\* <<subpath position, element>>; ids are the outcomes of randomId() still unused
PathMapFrom(doc, element, context, subpaths, i, env, initialWinding, ids) ==
  IF i > Len(subpaths) THEN <<>>
  ELSE With(SubpathElement(doc, element, context, subpaths[i], env,
                           initialWinding, Head(ids)),
            LAMBDA item :
              IF item = <<>>
                THEN PathMapFrom(doc, element, context, subpaths, i + 1, env,
                                 NextInitialWinding(subpaths[i], env, initialWinding), ids)
                ELSE <<<<i, item[1]>>>>
                     \o PathMapFrom(doc, element, context, subpaths, i + 1, env,
                                    NextInitialWinding(subpaths[i], env, initialWinding),
                                    Tail(ids)))

\* rs: the outcomes of the randomId() calls, in call order (the group id first
\* when the path has several subpaths)
PathItems(doc, element, context, rs) ==
  With(convertPathToSubpaths(doc, element, getAccumulatedTransform(doc, element)),
       LAMBDA subpaths :
         IF Len(subpaths) = 0 THEN <<>>
         ELSE PathMapFrom(doc, element, context, subpaths, 1,
                          PathEnv(doc, element, context, subpaths, rs[1]), "null",
                          IF Len(subpaths) > 1 THEN Tail(rs) ELSE rs))

pathConverter(doc, element, context, rs) ==
  With(PathItems(doc, element, context, rs), LAMBDA items :
    Array([k \in 1..Len(items) |-> items[k][2]]))

RECURSIVE TextContent(_, _)
\* element.textContent: the element's text followed by its descendants', in document order
TextContent(doc, n) ==
  LET kids == SelectSeq([m \in 1..Len(doc) |-> m], LAMBDA m : ParentElement(doc, m) = n)
      RECURSIVE Join(_)
      Join(ks) == IF ks = <<>> THEN <<>> ELSE TextContent(doc, Head(ks)) \o Join(Tail(ks))
  IN  doc[n].text \o Join(kids)

RECURSIVE JoinLines(_)
\* lines.join("\n")
JoinLines(lines) ==
  IF lines = <<>> THEN <<>>
  ELSE IF Len(lines) = 1 THEN lines[1]
  ELSE lines[1] \o <<"\n">> \o JoinLines(Tail(lines))

getTextContent(doc, element) ==
  With(QuerySelectorAll(doc, element, {Tag.tspan}), LAMBDA tspans :
    IF Len(tspans) = 0 THEN Trim(TextContent(doc, element))
    ELSE JoinLines(SelectSeq([k \in 1..Len(tspans) |-> Trim(TextContent(doc, tspans[k]))],
                             LAMBDA line : Len(line) > 0)))

\* Number.parseFloat(element.getAttribute(name) ?? "")
ParseAttr(doc, n, name) == ParseFloat(Coalesce(GetAttribute(doc, n, name), EmptyStr))

AnchorFrom(textX, textY, doc, tspans) ==
  IF ~textX.nan /\ ~textY.nan THEN <<textX.v, textY.v>>
  ELSE IF Len(tspans) > 0
         /\ ~ParseAttr(doc, tspans[1], Attr.x).nan /\ ~ParseAttr(doc, tspans[1], Attr.y).nan
    THEN <<ParseAttr(doc, tspans[1], Attr.x).v, ParseAttr(doc, tspans[1], Attr.y).v>>
  ELSE <<0, 0>>

getTextAnchorPoint(doc, element) ==
  AnchorFrom(ParseAttr(doc, element, Attr.x), ParseAttr(doc, element, Attr.y),
             doc, QuerySelectorAll(doc, element, {Tag.tspan}))

toTextAlign(textAnchor) ==
  IF textAnchor = Value.middle THEN "center"
  ELSE IF textAnchor = Value.end THEN "right"
  ELSE "left"

toVerticalAlign(dominantBaseline) ==
  IF dominantBaseline = Value.middle \/ dominantBaseline = Value.central THEN "middle"
  ELSE "top"

\* The text element's x, y, width and height are kept in units of 1 / TextScale,
\* which makes 0.6, 0.8, 1.25 and the halves whole numbers.
TextScale == 40

IntMax(a, b) == IF a >= b THEN a ELSE b

\* the element of textConverter from the values it has computed
TextElement(rawText, t, fontSize, width, height, textAlign, verticalAlign, color, id) ==
  Spread(createBaseElement(id),
         [type |-> "text",
          x |-> IF textAlign = "center" THEN TextScale * t[1] - width \div 2
                ELSE IF textAlign = "right" THEN TextScale * t[1] - width
                ELSE TextScale * t[1],
          y |-> IF verticalAlign = "middle" THEN TextScale * t[2] - height \div 2
                ELSE TextScale * t[2] - fontSize * 32,
          width |-> width, height |-> height,
          strokeColor |-> color,
          backgroundColor |-> Value.transparent,
          strokeWidth |-> 0,
          text |-> rawText, originalText |-> rawText,
          fontSize |-> fontSize, fontFamily |-> 2,
          baseline |-> fontSize,
          textAlign |-> textAlign, verticalAlign |-> verticalAlign,
          lineHeight |-> 50])

\* TextSized, changed to leave out Math.max(1, ...)
TextSizedUnclamped(rawText, lines, t, fontSize, textAlign, verticalAlign, color, id) ==
  TextElement(rawText, t, fontSize,
              SetMax({Len(lines[k]) : k \in 1..Len(lines)} \cup {0}) * fontSize * 24,
              Len(lines) * fontSize * 50,
              textAlign, verticalAlign, color, id)

\* lines = rawText.split("\n"); width and height from the longest line and the line count
TextSized(rawText, lines, t, fontSize, textAlign, verticalAlign, color, id) ==
  TextElement(rawText, t, fontSize,
              IntMax(TextScale,
                     SetMax({Len(lines[k]) : k \in 1..Len(lines)} \cup {0}) * fontSize * 24),
              IntMax(TextScale, Len(lines) * fontSize * 50),
              textAlign, verticalAlign, color, id)

TextFrom(rawText, doc, element, context, id) ==
  IF Falsy(rawText) THEN <<>>
  ELSE <<TextSized(rawText, Split(rawText, "\n"),
                   transformPoint(getTextAnchorPoint(doc, element),
                                  getAccumulatedTransform(doc, element)),
                   IntMax(1, getNumericPresentationValue(doc, element, context,
                                                         Attr.font_size, 20)),
                   toTextAlign(getPresentationValue(doc, element, context, Attr.text_anchor)),
                   toVerticalAlign(getPresentationValue(doc, element, context,
                                                        Attr.dominant_baseline)),
                   getFillColor(doc, element, context), id)>>

textConverter(doc, element, context, rs) ==
  TextFrom(getTextContent(doc, element), doc, element, context, rs[1])

ConverterFor(tag, doc, node, context, rs) ==
  CASE tag = Tag.rect -> rectConverter(doc, node, context, rs)
    [] tag = Tag.circle -> circleConverter(doc, node, context, rs)
    [] tag = Tag.ellipse -> ellipseConverter(doc, node, context, rs)
    [] tag = Tag.line -> lineConverter(doc, node, context, rs)
    [] tag = Tag.polygon -> polygonConverter(doc, node, context, rs)
    [] tag = Tag.polyline -> polylineConverter(doc, node, context, rs)
    [] tag = Tag.path -> pathConverter(doc, node, context, rs)
    [] tag = Tag.text -> textConverter(doc, node, context, rs)
    [] OTHER -> <<>>

\* svgConverters[node.tagName.toLowerCase()] applied to the node; <<>> when there is
\* no converter or the converter returns null
svgConverters(doc, node, context, rs) ==
  ConverterFor(ToLowerCase(TagName(doc, node)), doc, node, context, rs)

-----------------------------------------------------------------------------
(* convert.ts: convertSvgToExcalidraw as a state machine *)

EXCALIDRAW_SOURCE == "https://excalidraw.com"

\* the outcomes of randomId()
RandomIds == {"id1", "id2"}

RandomCallsFor(count, doc, node, context) ==
  Len(svgConverters(doc, node, context, [k \in 1..(count + 1) |-> "id1"]))
  + (IF count > 1 THEN 1 ELSE 0)

\* how many times converting the node calls randomId(): once for a shared group id,
\* once in createBaseElement for every element made
RandomCalls(doc, node, context) ==
  RandomCallsFor(IF ToLowerCase(TagName(doc, node)) = Tag.path
                   THEN Len(convertPathToSubpaths(doc, node,
                                                  getAccumulatedTransform(doc, node)))
                   ELSE 0,
                 doc, node, context)

\* history: where the elements of a node come from, <<node, subpath position>>
\* (position 0 for a node that is not a path)
OriginsOf(doc, node, context, rs) ==
  IF ToLowerCase(TagName(doc, node)) = Tag.path
    THEN With(PathItems(doc, node, context, rs), LAMBDA items :
           Array([k \in 1..Len(items) |-> <<node, items[k][1]>>]))
    ELSE Array([k \in 1..Len(svgConverters(doc, node, context, rs)) |-> <<node, 0>>])

NoResult == [kind |-> "none"]

\* getWindingOrder was called neither with the sequence nor with its reversal
NotCalled == [original |-> <<>>, reversed |-> <<>>]

\* parseSvg throws: the parser reports a parsererror
ParseError ==
  /\ pc = "start"
  /\ markup.parseError
  /\ pc' = "error"
  /\ result' = [kind |-> "error", message |-> "SVG parsing error"]
  /\ UNCHANGED <<markup, svgRoot, styleContext, nodes, cursor, elements,
                 convertedSubpaths, emittedFrom>>
  /\ UNCHANGED outside

\* NoSvgRoot, changed to return an empty document instead of throwing
NoSvgRootEmptyDocument ==
  /\ pc = "start"
  /\ ~markup.parseError
  /\ QuerySvgRoot(markup.nodes) = 0
  /\ pc' = "done"
  /\ result' = [kind |-> "document", type |-> "excalidraw", version |-> 2,
                source |-> "https://excalidraw.com", elements |-> <<>>]
  /\ UNCHANGED <<markup, svgRoot, styleContext, nodes, cursor, elements,
                 convertedSubpaths, emittedFrom>>
  /\ UNCHANGED outside

\* parseSvg throws: no <svg> element in the document
NoSvgRoot ==
  /\ pc = "start"
  /\ ~markup.parseError
  /\ QuerySvgRoot(markup.nodes) = 0
  /\ pc' = "error"
  /\ result' = [kind |-> "error",
                message |-> "Input does not contain a valid <svg> root element."]
  /\ UNCHANGED <<markup, svgRoot, styleContext, nodes, cursor, elements,
                 convertedSubpaths, emittedFrom>>
  /\ UNCHANGED outside

\* parseSvg returns the root; createStyleContext; querySelectorAll(...).filter(shouldConvertNode)
SelectNodes ==
  /\ pc = "start"
  /\ ~markup.parseError
  /\ QuerySvgRoot(markup.nodes) # 0
  /\ svgRoot' = QuerySvgRoot(markup.nodes)
  /\ styleContext' = createStyleContext(markup.nodes, QuerySvgRoot(markup.nodes))
  /\ nodes' = SelectSeq(QuerySelectorAll(markup.nodes, QuerySvgRoot(markup.nodes),
                                          SUPPORTED_TAGS),
                        LAMBDA n : shouldConvertNode(markup.nodes, n))
  /\ cursor' = 1
  /\ pc' = "convert"
  /\ UNCHANGED <<markup, elements, convertedSubpaths, emittedFrom, result>>
  /\ UNCHANGED outside

\* ConvertNode, changed to put the node's elements in front of the list
ConvertNodePrepending ==
  /\ pc = "convert"
  /\ cursor <= Len(nodes)
  /\ \E rs \in [1..RandomCalls(markup.nodes, nodes[cursor], styleContext) -> RandomIds] :
       /\ elements' = svgConverters(markup.nodes, nodes[cursor], styleContext, rs) \o elements
       /\ emittedFrom' =
            OriginsOf(markup.nodes, nodes[cursor], styleContext, rs) \o emittedFrom
       /\ convertedSubpaths' =
            IF ToLowerCase(TagName(markup.nodes, nodes[cursor])) = Tag.path
              THEN convertPathToSubpaths(markup.nodes, nodes[cursor],
                                         getAccumulatedTransform(markup.nodes, nodes[cursor]))
              ELSE convertedSubpaths
  /\ cursor' = cursor + 1
  /\ UNCHANGED <<markup, pc, svgRoot, styleContext, nodes, result>>
  /\ UNCHANGED outside

\* one turn of the loop `for (const node of nodes)`
ConvertNode ==
  /\ pc = "convert"
  /\ cursor <= Len(nodes)
  /\ \E rs \in [1..RandomCalls(markup.nodes, nodes[cursor], styleContext) -> RandomIds] :
       /\ elements' = elements \o svgConverters(markup.nodes, nodes[cursor], styleContext, rs)
       /\ emittedFrom' =
            emittedFrom \o OriginsOf(markup.nodes, nodes[cursor], styleContext, rs)
       /\ convertedSubpaths' =
            IF ToLowerCase(TagName(markup.nodes, nodes[cursor])) = Tag.path
              THEN convertPathToSubpaths(markup.nodes, nodes[cursor],
                                         getAccumulatedTransform(markup.nodes, nodes[cursor]))
              ELSE convertedSubpaths
  /\ cursor' = cursor + 1
  /\ UNCHANGED <<markup, pc, svgRoot, styleContext, nodes, result>>
  /\ UNCHANGED outside

\* return { type, version, source, elements }
ReturnDocument ==
  /\ pc = "convert"
  /\ cursor > Len(nodes)
  /\ result' = [kind |-> "document", type |-> "excalidraw", version |-> 2,
                source |-> EXCALIDRAW_SOURCE, elements |-> elements]
  /\ pc' = "done"
  /\ UNCHANGED <<markup, svgRoot, styleContext, nodes, cursor, elements,
                 convertedSubpaths, emittedFrom>>
  /\ UNCHANGED outside

Next == ParseError \/ NoSvgRoot \/ SelectNodes \/ ConvertNode \/ ReturnDocument

\* the caller calls convertSvgToExcalidraw a second time, with the same markup
RunAgain ==
  /\ pc \in {"done", "error"}
  /\ previous = NoResult
  /\ previous' = result
  /\ pc' = "start"
  /\ svgRoot' = 0
  /\ styleContext' = [svgRoot |-> 0, classStyles |-> EmptyMap]
  /\ nodes' = <<>>
  /\ cursor' = 1
  /\ elements' = <<>>
  /\ convertedSubpaths' = <<>>
  /\ emittedFrom' = <<>>
  /\ result' = NoResult
  /\ UNCHANGED <<markup, windingVars, tuiVars>>

\* two calls, one after the other
NextAgain ==
  ParseError \/ NoSvgRoot \/ SelectNodes \/ ConvertNode \/ ReturnDocument \/ RunAgain

\* JSON.stringify has not run: latestJson is null
NoJson == <<>>

\* the AppState the TUI starts with
InitialState ==
  [rawInput |-> EmptyStr,
   modeLabel |-> "unknown",
   resolvedPath |-> Null,
   latestJson |-> NoJson,
   latestElementCount |-> 0,
   status |-> "idle",
   statusMessage |-> <<"Paste SVG markup or drop an SVG path into the terminal.">>,
   clipboardMessage |-> EmptyStr]

\* convertCurrentInput is not running
NotConverting == [at |-> "nowhere"]

\* history of the TUI: the last event and what it handed to copyToClipboard, the JSON of
\* the last conversion that succeeded and whether r was pressed after it, the JSON of the
\* last one that succeeded since the last r, and whether anything was pasted or pressed
\* since the last r
NothingObserved ==
  [event |-> "start", copied |-> NoJson, converted |-> NoJson, resetAfter |-> FALSE,
   lastSuccess |-> NoJson, untouchedSinceReset |-> FALSE, message |-> EmptyStr]

\* the TUI as it starts on a platform
TuiStarts(platforms) ==
  /\ platform \in platforms
  /\ state = InitialState
  /\ isBusy = FALSE
  /\ converting = NotConverting
  /\ copyingAgain = 0
  /\ exited = FALSE
  /\ observed = NothingObserved

\* the TUI is not used
NoTui == TuiStarts({"darwin"})

\* the state at the call of convertSvgToExcalidraw(markup)
CallWith(inputs) ==
  /\ markup \in inputs
  /\ pc = "start"
  /\ svgRoot = 0
  /\ styleContext = [svgRoot |-> 0, classStyles |-> EmptyMap]
  /\ nodes = <<>>
  /\ cursor = 1
  /\ elements = <<>>
  /\ convertedSubpaths = <<>>
  /\ emittedFrom = <<>>
  /\ result = NoResult
  /\ previous = NoResult

\* convertSvgToExcalidraw is not called
NoConversion == CallWith({[parseError |-> TRUE, nodes |-> <<>>]})

\* getWindingOrder is not called on its own
NoWindingCall ==
  /\ windingInput = <<>>
  /\ windingOf = NotCalled

\* one call of convertSvgToExcalidraw(markup), and nothing else
InitWith(inputs) ==
  /\ CallWith(inputs)
  /\ NoWindingCall
  /\ NoTui

-----------------------------------------------------------------------------
(* Inputs *)

Node(tag, attrs, text) == [tag |-> tag, attrs |-> attrs, text |-> text]

\* a node placed in a document under the parent p
Under(node, p) == [tag |-> node.tag, parent |-> p, attrs |-> node.attrs, text |-> node.text]

NoAttrs == EmptyMap

N_1 == <<"1">>
N_2 == <<"2">>
N_3 == <<"3">>
N_4 == <<"4">>
N_0 == <<"0">>
N_minus3 == <<"-", "3">>
N_abc == <<"a", "b", "c">>

\* the subpaths pointsOnPath returns for a square path, drawn from (x, y) with side s,
\* in the order right-down-left-up (cw) or down-right-up-left
Square(x, y, s, cw) ==
  IF cw THEN <<<<x, y>>, <<x + s, y>>, <<x + s, y + s>>, <<x, y + s>>, <<x, y>>>>
  ELSE <<<<x, y>>, <<x, y + s>>, <<x + s, y + s>>, <<x + s, y>>, <<x, y>>>>

PathData(pathPoints) == [empty |-> FALSE, throws |-> FALSE, pathPoints |-> pathPoints]

SvgRoot == Node(Tag.svg, NoAttrs, <<>>)

Group == Node(Tag.g, NoAttrs, <<>>)

Defs == Node(Tag.defs, NoAttrs, <<>>)

ClipPath == Node(Tag.clipPath, NoAttrs, <<>>)

PlainRect ==
  Node(Tag.rect, (Attr.x :> N_1) @@ (Attr.y :> N_2) @@ (Attr.width :> N_4) @@ (Attr.height :> N_3), <<>>)

\* a rect that declares itself visible
ShownRect ==
  Node(Tag.rect,
       (Attr.width :> N_4) @@ (Attr.height :> N_3)
       @@ (Attr.display :> <<"i", "n", "l", "i", "n", "e">>)
       @@ (Attr.visibility :> <<"v", "i", "s", "i", "b", "l", "e">>)
       @@ (Attr.opacity :> N_1),
       <<>>)

\* a path of two closed subpaths, the second inside the first
RingPath ==
  Node(Tag.path,
       Attr.d :> PathData(<<Square(0, 0, 10, TRUE), Square(3, 3, 4, FALSE)>>),
       <<>>)

TreeKinds == {Group, Defs, ClipPath, ShownRect, RingPath}

ContainerTags == {Tag.svg, Tag.g, Tag.defs, Tag.clipPath}

\* the parents a node appended to doc may have, so that the sequence stays in document order
OpenParents(doc) ==
  {p \in 1..Len(doc) :
     /\ doc[p].tag \in ContainerTags
     /\ (p = Len(doc) \/ IsDescendantOf(doc, Len(doc), p))}

MaxNodes == 3

RECURSIVE TreesOfSize(_, _)
\* the documents of k nodes below the root, built from the kinds
TreesOfSize(k, kinds) ==
  IF k = 0 THEN {<<Under(SvgRoot, 0)>>}
  ELSE UNION {{Append(doc, Under(kind, p)) : kind \in kinds, p \in OpenParents(doc)} :
                doc \in TreesOfSize(k - 1, kinds)}

TreesUpTo(n, kinds) == UNION {TreesOfSize(k, kinds) : k \in 1..n}

\* inputs on which parseSvg throws: markup that does not parse, and markup without <svg>
FatalInputs ==
  {[parseError |-> TRUE, nodes |-> <<>>],
   [parseError |-> FALSE, nodes |-> <<Under(Group, 0), Under(PlainRect, 1)>>]}

Parsed(docs) == {[parseError |-> FALSE, nodes |-> doc] : doc \in docs}

TreeInputs == Parsed(TreesUpTo(MaxNodes, TreeKinds)) \cup FatalInputs

Init == InitWith(TreeInputs)

Spec == Init /\ [][Next]_vars

\* the kinds of node of the documents that are converted twice
AgainKinds == {Group, ShownRect, RingPath}

MaxNodesAgain == 2

InitAgain == InitWith(Parsed(TreesUpTo(MaxNodesAgain, AgainKinds)) \cup FatalInputs)

\* the same document, converted twice
SpecAgain == InitAgain /\ [][NextAgain]_vars

-----------------------------------------------------------------------------
(* Inputs: one path, polyline, polygon or line, optionally in a group *)

C_red == <<"r", "e", "d">>

UrlArrow == <<"u", "r", "l", "(", "#", "a", "r", "r", "o", "w", ")">>

\* what fromDefinition(fromTransformAttribute(text)) returns for a transform list
Transform(matrices) == [empty |-> FALSE, throws |-> FALSE, matrices |-> matrices]

\* transformation-matrix translate(tx, ty)
Translate(tx, ty) == [a |-> 1, b |-> 0, c |-> 0, d |-> 1, e |-> tx, f |-> ty]

\* transformation-matrix scale(sx, sy)
Scale(sx, sy) == [a |-> sx, b |-> 0, c |-> 0, d |-> sy, e |-> 0, f |-> 0]

\* transformation-matrix rotateDEG(90)
Rotate90 == [a |-> 0, b |-> 1, c |-> 0 - 1, d |-> 0, e |-> 0, f |-> 0]

\* the subpaths a path is made of
Outer == Square(0, 0, 10, TRUE)
InnerCcw == Square(3, 3, 4, FALSE)
InnerCw == Square(2, 2, 4, TRUE)
Twin == Square(20, 0, 10, FALSE)
OpenLine == <<<<1, 1>>, <<6, 1>>, <<6, 8>>>>
Dot == <<<<5, 5>>>>

SubpathShapes == {Outer, InnerCcw, InnerCw, Twin, OpenLine, Dot}

MaxSubpaths == 2

\* the lists of 1..n subpaths
PathPointLists(n) == UNION {[1..k -> SubpathShapes] : k \in 1..n}

\* the presentation attributes of the path
PathStyles ==
  {Attr.stroke :> C_red,
   Attr.fill_rule :> Value.evenodd,
   (Attr.fill :> Value.none) @@ (Attr.stroke :> C_red),
   (Attr.fill :> Value.none) @@ (Attr.stroke :> C_red) @@ (Attr.marker_end :> UrlArrow)}

\* a mirror image that is moved: it reverses the winding of every subpath
MirrorAndMove == Attr.transform :> Transform(<<Translate(5, 7), Scale(0 - 1, 2)>>)

OwnTransforms == {NoAttrs, MirrorAndMove}

PathLeaves ==
  {Node(Tag.path, (Attr.d :> PathData(Array(pathPoints))) @@ style @@ transform, <<>>) :
     pathPoints \in PathPointLists(MaxSubpaths), style \in PathStyles,
     transform \in OwnTransforms}

\* the numbers of a points attribute: three points, two points with a stray number,
\* and one point with a stray number
PointLists == {<<1, 2, 4, 6, 4, 2>>, <<0, 0, 3, 4, 9>>, <<1, 2, 3>>}

PointsLeaves ==
  {Node(tag, (Attr.points :> numericValues) @@ (Attr.stroke :> C_red) @@ marker @@ transform,
        <<>>) :
     tag \in {Tag.polyline, Tag.polygon}, numericValues \in PointLists,
     marker \in {NoAttrs, Attr.marker_end :> UrlArrow}, transform \in OwnTransforms}

LineLeaves ==
  {Node(Tag.line,
        (Attr.x1 :> N_1) @@ (Attr.y1 :> N_2) @@ (Attr.x2 :> N_4) @@ (Attr.y2 :> N_3)
        @@ (Attr.stroke :> C_red) @@ marker @@ transform,
        <<>>) :
     marker \in {NoAttrs, Attr.marker_end :> UrlArrow}, transform \in OwnTransforms}

EvenOddGroup == Node(Tag.g, Attr.fill_rule :> Value.evenodd, <<>>)

\* the leaf directly under the root, and under a group that sets fill-rule
LeafDocs(leaves) ==
  {<<Under(SvgRoot, 0), Under(leaf, 1)>> : leaf \in leaves}
  \cup {<<Under(SvgRoot, 0), Under(EvenOddGroup, 1), Under(leaf, 2)>> : leaf \in leaves}

PathInputs ==
  Parsed(LeafDocs(PathLeaves \cup PointsLeaves \cup LineLeaves)) \cup FatalInputs

InitPath == InitWith(PathInputs)

SpecPath == InitPath /\ [][Next]_vars

-----------------------------------------------------------------------------
(* Inputs: one rect, circle, ellipse or line in a chain of transformed groups *)

\* the texts of a width, a height or a radius
DimensionTexts == {N_0, N_minus3, N_abc, N_4}

RectLeaves ==
  {Node(Tag.rect, (Attr.x :> N_1) @@ (Attr.y :> N_2) @@ (Attr.width :> w) @@ (Attr.height :> h), <<>>) :
     w \in DimensionTexts, h \in DimensionTexts}

CircleLeaves ==
  {Node(Tag.circle, (Attr.cx :> N_3) @@ (Attr.cy :> N_4) @@ (Attr.r :> r), <<>>) :
     r \in DimensionTexts}

EllipseLeaves ==
  {Node(Tag.ellipse, (Attr.cx :> N_3) @@ (Attr.cy :> N_4) @@ (Attr.rx :> rx) @@ (Attr.ry :> ry), <<>>) :
     rx \in DimensionTexts, ry \in DimensionTexts}

\* the values of marker-start and marker-end
MarkerStarts == {NoAttrs, Attr.marker_start :> Value.none,
                 Attr.marker_start :> <<"u", "r", "l", "(", "#", "D", "o", "t", ")">>}

MarkerEnds ==
  {NoAttrs,
   Attr.marker_end :> Value.none,
   Attr.marker_end :> EmptyStr,
   Attr.marker_end :> <<"N", "O", "N", "E">>,
   Attr.marker_end :> UrlArrow,
   Attr.marker_end :> <<"u", "r", "l", "(", "#", "t", "b", "a", "r", ")">>,
   Attr.marker_end :> <<"u", "r", "l", "(", "#", "c", "i", "r", "c", "l", "e", "-", "b", "a", "r", ")">>}

MarkedLineLeaves ==
  {Node(Tag.line,
        (Attr.x1 :> N_1) @@ (Attr.y1 :> N_2) @@ (Attr.x2 :> N_4) @@ (Attr.y2 :> N_3)
        @@ (Attr.stroke :> C_red) @@ markerStart @@ markerEnd,
        <<>>) :
     markerStart \in MarkerStarts, markerEnd \in MarkerEnds}

\* a leaf with and without a transform of its own
WithOwnTransform(leaves) ==
  {Node(leaf.tag, leaf.attrs @@ transform, <<>>) :
     leaf \in leaves, transform \in {NoAttrs, Attr.transform :> Transform(<<Scale(2, 2)>>)}}

\* the transform attributes of a group: none, a translation, a mirroring scale,
\* a quarter turn that is then moved, and text the library cannot parse
GroupTransforms ==
  {NoAttrs,
   Attr.transform :> Transform(<<Translate(10, 5)>>),
   Attr.transform :> Transform(<<Scale(0 - 2, 3)>>),
   Attr.transform :> Transform(<<Translate(3, 0), Rotate90>>),
   Attr.transform :> [empty |-> FALSE, throws |-> TRUE, matrices |-> <<>>]}

MaxDepth == 2

RECURSIVE GroupChains(_)
\* the documents made of the root and d groups, each inside the one before
GroupChains(d) ==
  IF d = 0 THEN {<<Under(SvgRoot, 0)>>}
  ELSE {Append(doc, Under(Node(Tag.g, transform, <<>>), Len(doc))) :
          doc \in GroupChains(d - 1), transform \in GroupTransforms}

ChainDocs(leaves) ==
  {Append(doc, Under(leaf, Len(doc))) :
     doc \in UNION {GroupChains(d) : d \in 0..MaxDepth}, leaf \in leaves}

ShapeInputs ==
  Parsed(ChainDocs(WithOwnTransform(RectLeaves \cup CircleLeaves \cup EllipseLeaves
                                    \cup MarkedLineLeaves)))
  \cup FatalInputs

InitShape == InitWith(ShapeInputs)

SpecShape == InitShape /\ [][Next]_vars

-----------------------------------------------------------------------------
(* Inputs: a rect or a text whose style comes from the cascade *)

\* the text of the <style> element
StyleTexts == {EmptyStr, <<".", "a", "{", "s", "t", "r", "o", "k", "e", ":", "r", "e", "d", "}">>, <<".", "a", "{", "f", "i", "l", "l", ":", "b", "l", "u", "e", "}", " ", ".", "b", "{", "f", "o", "n", "t", "-", "s", "i", "z", "e", ":", "2", "}">>}

\* the presentation attributes of the group
GroupStyles ==
  {NoAttrs, Attr.stroke :> C_red, Attr.fill :> <<"b", "l", "u", "e">>, Attr.style :> <<"s", "t", "r", "o", "k", "e", "-", "w", "i", "d", "t", "h", ":", "3">>}

LeafClasses == {NoAttrs, Attr.class :> <<"a">>, Attr.class :> <<"c", " ", " ", "b">>}

LeafStyles ==
  {NoAttrs, Attr.style :> <<"s", "t", "r", "o", "k", "e", ":", " ", "r", "e", "d">>, Attr.style :> <<"d", "i", "s", "p", "l", "a", "y", ":", "i", "n", "l", "i", "n", "e", ";">>,
   Attr.style :> <<"F", "i", "l", "l", " ", ":", " ", "B", "l", "u", "e">>}

LeafAttributes == {NoAttrs, Attr.fill :> EmptyStr, Attr.stroke_width :> N_2}

\* a rect and a one-line text, to be styled
CascadeLeaves ==
  {Node(Tag.rect, (Attr.width :> N_4) @@ (Attr.height :> N_3), <<>>),
   Node(Tag.text, (Attr.x :> N_1) @@ (Attr.y :> N_2), <<"H", "i">>)}

\* root > (style, g > leaf)
CascadeDocs ==
  {<<Under(SvgRoot, 0),
     Under(Node(Tag.style, NoAttrs, cssText), 1),
     Under(Node(Tag.g, groupStyle, <<>>), 1),
     Under(Node(leaf.tag, leaf.attrs @@ class @@ style @@ attribute, leaf.text), 3)>> :
     cssText \in StyleTexts, groupStyle \in GroupStyles, class \in LeafClasses,
     style \in LeafStyles, attribute \in LeafAttributes, leaf \in CascadeLeaves}

CascadeInputs == Parsed(CascadeDocs) \cup FatalInputs

InitCascade == InitWith(CascadeInputs)

SpecCascade == InitCascade /\ [][Next]_vars

-----------------------------------------------------------------------------
(* Inputs: a text of one or more lines in a group *)

\* the lines a text is made of
Words == {<<"A">>, <<"H", "e", "l", "l", "o">>}

MaxLines == 2

\* the texts: nothing, white space, one line of character data, or lines given as tspans
LineLists(n) == UNION {[1..k -> Words] : k \in 1..n}

FontSizes == {NoAttrs, Attr.font_size :> N_1, Attr.font_size :> N_0, Attr.font_size :> N_3}

TextAnchors ==
  {NoAttrs, Attr.text_anchor :> <<"m", "i", "d", "d", "l", "e">>, Attr.text_anchor :> <<"e", "n", "d">>,
   Attr.text_anchor :> <<"s", "t", "a", "r", "t">>}

TextPositions == {NoAttrs, (Attr.x :> N_4) @@ (Attr.y :> N_2)}

\* the attributes of the <text>
TextAttributes ==
  {fontSize @@ textAnchor @@ position @@ transform :
     fontSize \in FontSizes, textAnchor \in TextAnchors, position \in TextPositions,
     transform \in {NoAttrs, Attr.transform :> Transform(<<Scale(2, 3)>>)}}

\* the attributes of the group around it
TextGroups ==
  {NoAttrs, Attr.text_anchor :> <<"m", "i", "d", "d", "l", "e">>,
   (Attr.transform :> Transform(<<Translate(10, 5)>>))
   @@ (Attr.dominant_baseline :> <<"m", "i", "d", "d", "l", "e">>)}

\* root > g > text, the text holding character data
PlainTextDocs ==
  {<<Under(SvgRoot, 0), Under(Node(Tag.g, group, <<>>), 1),
     Under(Node(Tag.text, attrs, content), 2)>> :
     group \in TextGroups, attrs \in TextAttributes,
     content \in Words \cup {EmptyStr, <<" ", " ">>, <<" ", "H", "e", "l", "l", "o", " ">>}}

\* root > g > text > tspan ..., one tspan for each line
TspanDocs ==
  {<<Under(SvgRoot, 0), Under(Node(Tag.g, group, <<>>), 1),
     Under(Node(Tag.text, attrs, <<>>), 2)>>
   \o Array([k \in 1..Len(lines) |-> Under(Node(Tag.tspan, NoAttrs, lines[k]), 3)]) :
     group \in TextGroups, attrs \in TextAttributes, lines \in LineLists(MaxLines)}

TextInputs == Parsed(PlainTextDocs \cup TspanDocs) \cup FatalInputs

InitText == InitWith(TextInputs)

SpecText == InitText /\ [][Next]_vars

-----------------------------------------------------------------------------
(* Inputs: documents with malformed transforms and paths that cannot be read *)

\* a transform attribute whose text fromTransformAttribute rejects
MalformedTransform == Attr.transform :> [empty |-> FALSE, throws |-> TRUE, matrices |-> <<>>]

MalformedGroup == Node(Tag.g, MalformedTransform, <<>>)

\* a rect with a malformed transform of its own
MalformedRect == Node(PlainRect.tag, PlainRect.attrs @@ MalformedTransform, <<>>)

\* a path with no d attribute
PathWithoutD == Node(Tag.path, Attr.stroke :> C_red, <<>>)

\* a path whose d attribute pointsOnPath rejects
MalformedPath ==
  Node(Tag.path,
       (Attr.d :> [empty |-> FALSE, throws |-> TRUE, pathPoints |-> <<>>])
       @@ (Attr.stroke :> C_red),
       <<>>)

BrokenKinds == {MalformedGroup, MalformedRect, PathWithoutD, MalformedPath, PlainRect}

MaxNodesBroken == 3

BrokenInputs == Parsed(TreesUpTo(MaxNodesBroken, BrokenKinds)) \cup FatalInputs

InitBroken == InitWith(BrokenInputs)

SpecBroken == InitBroken /\ [][Next]_vars

-----------------------------------------------------------------------------
(* Inputs: a rect whose fill and stroke are declared at several steps of the cascade *)

\* the rules of the <style> element: c1 declares fill, c2 declares fill and stroke
OrderRules == <<".", "c", "1", "{", "f", "i", "l", "l", ":", "c", "}", " ", ".", "c", "2", "{", "f", "i", "l", "l", ":", "d", ";", "s", "t", "r", "o", "k", "e", ":", "e", "}">>

OrderInlineStyles == {NoAttrs, Attr.style :> <<"f", "i", "l", "l", ":", "i">>, Attr.style :> <<"S", "t", "r", "o", "k", "e", " ", ":", " ", "j">>}

OrderAttributes == {NoAttrs, Attr.fill :> EmptyStr, Attr.fill :> <<"a">>, Attr.stroke :> <<"s">>}

OrderClasses == {NoAttrs, Attr.class :> <<"c", "1", " ", "c", "2">>, Attr.class :> <<"c", "2", " ", "c", "1">>, Attr.class :> <<"x", " ", "c", "2">>}

\* what the parent group declares: nothing, an attribute, an inline style, or both
OrderParents ==
  {NoAttrs, Attr.fill :> <<"p">>, Attr.style :> <<"f", "i", "l", "l", ":", "q">>,
   (Attr.fill :> <<"p">>) @@ (Attr.style :> <<"f", "i", "l", "l", ":", "q", ";", "s", "t", "r", "o", "k", "e", ":", "t">>)}

\* what the grandparent group declares
OrderGrandparents == {NoAttrs, (Attr.fill :> <<"g">>) @@ (Attr.stroke :> <<"h">>)}

\* root > (style, g > g > rect)
OrderDocs ==
  {<<Under(SvgRoot, 0),
     Under(Node(Tag.style, NoAttrs, OrderRules), 1),
     Under(Node(Tag.g, grandparent, <<>>), 1),
     Under(Node(Tag.g, parent, <<>>), 3),
     Under(Node(Tag.rect,
                (Attr.width :> N_4) @@ (Attr.height :> N_3) @@ style @@ attribute @@ class,
                <<>>), 4)>> :
     grandparent \in OrderGrandparents, parent \in OrderParents,
     style \in OrderInlineStyles, attribute \in OrderAttributes, class \in OrderClasses}

InitOrder == InitWith(Parsed(OrderDocs) \cup FatalInputs)

\* documents that declare one property at several steps of the cascade
SpecOrder == InitOrder /\ [][Next]_vars

-----------------------------------------------------------------------------
(* Inputs: a rect that is hidden, or stands in a hidden group *)

\* the rules of the <style> element: one class for each way of hiding
HiddenRules == <<".", "h", "{", "d", "i", "s", "p", "l", "a", "y", ":", "n", "o", "n", "e", "}", " ", ".", "v", "{", "v", "i", "s", "i", "b", "i", "l", "i", "t", "y", ":", "h", "i", "d", "d", "e", "n", "}", " ", ".", "o", "{", "o", "p", "a", "c", "i", "t", "y", ":", "0", "}">>

\* what a node may declare that hides it: an attribute, an inline style or a class
HidingDeclarations ==
  {Attr.display :> <<" ", "N", "o", "n", "e", " ">>, Attr.style :> <<"d", "i", "s", "p", "l", "a", "y", ":", "n", "o", "n", "e">>,
   Attr.visibility :> <<"h", "i", "d", "d", "e", "n">>, Attr.style :> <<"V", "i", "s", "i", "b", "i", "l", "i", "t", "y", ":", " ", "H", "i", "d", "d", "e", "n">>,
   Attr.opacity :> N_0, Attr.opacity :> N_minus3, Attr.style :> <<"o", "p", "a", "c", "i", "t", "y", ":", "0">>,
   Attr.class :> <<"h">>, Attr.class :> <<"x", " ", "v">>, Attr.class :> <<"o">>}

\* what a node may declare that shows it
ShowingDeclarations ==
  {NoAttrs, ShownRect.attrs,
   Attr.style :> <<"d", "i", "s", "p", "l", "a", "y", ":", "i", "n", "l", "i", "n", "e", ";", "v", "i", "s", "i", "b", "i", "l", "i", "t", "y", ":", "v", "i", "s", "i", "b", "l", "e", ";", "o", "p", "a", "c", "i", "t", "y", ":", "1">>,
   Attr.opacity :> N_abc}

\* root > (style, g > rect)
HiddenDocs ==
  {<<Under(SvgRoot, 0),
     Under(Node(Tag.style, NoAttrs, HiddenRules), 1),
     Under(Node(Tag.g, group, <<>>), 1),
     Under(Node(Tag.rect, own @@ (Attr.width :> N_4) @@ (Attr.height :> N_3), <<>>), 3)>> :
     group \in HidingDeclarations \cup {NoAttrs},
     own \in HidingDeclarations \cup ShowingDeclarations}

InitHidden == InitWith(Parsed(HiddenDocs) \cup FatalInputs)

\* documents whose rect or whose group declares display, visibility or opacity
SpecHidden == InitHidden /\ [][Next]_vars

-----------------------------------------------------------------------------
(* Inputs: a rect whose fill and stroke refer to a gradient *)

\* what a <stop> may declare: nothing, a stop-color attribute, a stop-color in its inline
\* style, or an empty attribute beside an inline style
StopKinds ==
  {NoAttrs, Attr.stop_color :> <<"a">>, Attr.style :> <<"s", "t", "o", "p", "-", "c", "o", "l", "o", "r", ":", "b">>,
   (Attr.stop_color :> EmptyStr) @@ (Attr.style :> <<"s", "t", "o", "p", "-", "c", "o", "l", "o", "r", ":", "c">>)}

MaxStops == 2

\* the stops of the gradient, in document order
StopLists == UNION {[1..n -> StopKinds] : n \in 0..MaxStops}

\* what the rect declares for fill and for stroke: nothing, none, a reference to the
\* gradient, a reference to an element that is not there
Paints == {Null, Value.none, <<"u", "r", "l", "(", "#", "g", ")">>, <<" ", "u", "r", "l", "(", "#", "m", ")", " ">>}

PaintAttrs(property, paint) == IF paint = Null THEN NoAttrs ELSE property :> paint

\* root > (defs > linearGradient#g > stop*, rect)
GradientDocs ==
  {<<Under(SvgRoot, 0), Under(Defs, 1),
     Under(Node(<<"l", "i", "n", "e", "a", "r", "G", "r", "a", "d", "i", "e", "n", "t">>, Attr.id :> <<"g">>, <<>>), 2)>>
   \o [s \in 1..Len(stops) |-> Under(Node(Tag.stop, stops[s], <<>>), 3)]
   \o <<Under(Node(Tag.rect,
                   PaintAttrs(Attr.fill, fill) @@ PaintAttrs(Attr.stroke, stroke)
                   @@ (Attr.width :> N_4) @@ (Attr.height :> N_3),
                   <<>>), 1)>> :
     stops \in StopLists, fill \in Paints, stroke \in Paints}

InitGradient == InitWith(Parsed(GradientDocs) \cup FatalInputs)

\* documents whose rect is painted with a gradient of up to MaxStops stops
SpecGradient == InitGradient /\ [][Next]_vars

-----------------------------------------------------------------------------
(* Inputs: one path of closed subpaths, some inside others *)

\* a square inside Outer that holds InnerCcw
Middle == Square(1, 1, 8, TRUE)

HoleShapes == {Outer, Twin, Middle, InnerCcw}

MaxHoleSubpaths == 3

HoleLeaves ==
  {Node(Tag.path, (Attr.d :> PathData(Array(pathPoints))) @@ rule @@ transform, <<>>) :
     pathPoints \in UNION {[1..k -> HoleShapes] : k \in 1..MaxHoleSubpaths},
     rule \in {NoAttrs, Attr.fill_rule :> Value.evenodd},
     transform \in OwnTransforms}

InitHoles ==
  InitWith(Parsed({<<Under(SvgRoot, 0), Under(leaf, 1)>> : leaf \in HoleLeaves})
           \cup FatalInputs)

\* paths of up to MaxHoleSubpaths squares
SpecHoles == InitHoles /\ [][Next]_vars

-----------------------------------------------------------------------------
(* Inputs: one path with or without a stroke, a stroke width and a fill *)

StrokeShapes == {Outer, InnerCcw, OpenLine}

MaxStrokeSubpaths == 2

\* the stroke of the path
Strokes == {NoAttrs, Attr.stroke :> C_red, Attr.stroke :> Value.none}

\* the stroke width of the path, as an attribute or inline
StrokeWidths ==
  {NoAttrs, Attr.stroke_width :> N_0, Attr.stroke_width :> N_2,
   Attr.style :> <<"s", "t", "r", "o", "k", "e", "-", "w", "i", "d", "t", "h", ":", " ", "0">>}

\* the fill and the marker of the path
FillsAndMarkers ==
  {NoAttrs, Attr.fill :> Value.none,
   (Attr.fill :> Value.none) @@ (Attr.marker_start :> UrlArrow)}

StrokeLeaves ==
  {Node(Tag.path,
        (Attr.d :> PathData(Array(pathPoints))) @@ stroke @@ strokeWidth @@ fill, <<>>) :
     pathPoints \in UNION {[1..k -> StrokeShapes] : k \in 1..MaxStrokeSubpaths},
     stroke \in Strokes, strokeWidth \in StrokeWidths, fill \in FillsAndMarkers}

InitStroke ==
  InitWith(Parsed({<<Under(SvgRoot, 0), Under(leaf, 1)>> : leaf \in StrokeLeaves})
           \cup FatalInputs)

\* paths whose stroke is red, none or absent, of width 0, 2 or absent
SpecStroke == InitStroke /\ [][Next]_vars

-----------------------------------------------------------------------------
(* io/input.ts: what the TUI is given, and what it resolves to *)

\* String.prototype.endsWith
EndsWith(s, suffix) ==
  /\ Len(s) >= Len(suffix)
  /\ SubSeq(s, Len(s) - Len(suffix) + 1, Len(s)) = suffix

\* SVG_PATTERN.test(input), the pattern /<svg[\s>]/i
isSvgMarkup(input) ==
  \E i \in 1..(Len(input) - 4) :
    /\ ToLowerCase(SubSeq(input, i, i + 3)) = <<"<", "s", "v", "g">>
    /\ IsSpace(input[i + 4]) \/ input[i + 4] = ">"

\* os.homedir()
HomeDir == <<"/", "h">>

\* normalizeDroppedPath(input).  The inputs of the model hold no percent escape, no
\* backslash and no "." or empty path segment, for which decodeURIComponent, the two
\* replace calls and path.normalize return their argument.
normalizeDroppedPath(input) ==
  With(Trim(input), LAMBDA trimmed :
  With(IF /\ Len(trimmed) > 0
          /\ \/ StartsWith(trimmed, <<"\"">>) /\ EndsWith(trimmed, <<"\"">>)
             \/ StartsWith(trimmed, <<"'">>) /\ EndsWith(trimmed, <<"'">>)
         THEN SubSeq(trimmed, 2, Len(trimmed) - 1)
         ELSE trimmed, LAMBDA unquoted :
  With(IF StartsWith(unquoted, <<"f", "i", "l", "e", ":", "/", "/">>)
         THEN SubSeq(unquoted, 8, Len(unquoted))
         ELSE unquoted, LAMBDA local :
    IF StartsWith(local, <<"~", "/">>)
      THEN HomeDir \o <<"/">> \o SubSeq(local, 3, Len(local))
      ELSE local)))

\* looksLikeFilePath(input)
looksLikeFilePath(input) ==
  /\ Len(input) > 0
  /\ \A i \in 1..Len(input) : input[i] # "\n"
  /\ \/ StartsWith(input, <<"/">>)
     \/ StartsWith(input, <<"~", "/">>)
     \/ StartsWith(input, <<".", "/">>)
     \/ StartsWith(input, <<".", ".", "/">>)
     \/ EndsWith(ToLowerCase(input), <<".", "s", "v", "g">>)
     \/ /\ Len(input) >= 3
        /\ ToLowerCase(<<input[1]>>)[1] \in
             {UpperToLower[upper] : upper \in DOMAIN UpperToLower}
        /\ input[2] = ":"
        /\ input[3] = "\\"

\* detectInputMode(input): { mode, normalizedPath }
detectInputMode(input) ==
  With(Trim(input), LAMBDA trimmed :
    IF Len(trimmed) = 0 THEN [mode |-> "unknown", normalizedPath |-> Null]
    ELSE IF isSvgMarkup(trimmed) THEN [mode |-> "svg-markup", normalizedPath |-> Null]
    ELSE IF looksLikeFilePath(normalizeDroppedPath(trimmed))
      THEN [mode |-> "file-path", normalizedPath |-> normalizeDroppedPath(trimmed)]
    ELSE [mode |-> "unknown", normalizedPath |-> Null])

\* the files of the machine: a file's content, or a directory
FileSystem ==
  (<<"/", "a", ".", "s", "v", "g">> :> [isFile |-> TRUE, content |-> <<"<", "s", "v", "g", ">", "<", "p", "a", "t", "h", "/", ">", "<", "/", "s", "v", "g", ">">>])
  @@ (<<"/", "t", ".", "s", "v", "g">> :> [isFile |-> TRUE, content |-> <<"h", "e", "l", "l", "o">>])
  @@ (<<"/", "d">> :> [isFile |-> FALSE, content |-> EmptyStr])

\* resolveSvgInput(rawInput) up to its await of readFile: it throws, it returns the
\* markup, or it waits for the file
resolveSvgInput(rawInput) ==
  With(Trim(rawInput), LAMBDA trimmed :
    IF Len(trimmed) = 0
      THEN [kind |-> "error",
            message |-> <<"No input detected. Paste SVG markup or drop an SVG file path.">>]
    ELSE IF isSvgMarkup(trimmed)
      THEN [kind |-> "resolved", mode |-> "svg-markup", svg |-> trimmed,
            normalizedPath |-> Null]
    ELSE With(normalizeDroppedPath(trimmed), LAMBDA normalizedPath :
      IF ~looksLikeFilePath(normalizedPath)
        THEN [kind |-> "error",
              message |-> <<"Input is neither SVG markup nor a valid-looking file path. Paste <svg ...> or drop a .svg file.">>]
      ELSE IF normalizedPath \notin DOMAIN FileSystem
        THEN [kind |-> "error", message |-> <<"SVG file not found: ", normalizedPath>>]
      ELSE IF ~FileSystem[normalizedPath].isFile
        THEN [kind |-> "error", message |-> <<"Path is not a file: ", normalizedPath>>]
      ELSE [kind |-> "readFile", normalizedPath |-> normalizedPath]))

\* resolveSvgInput from the return of readFile(normalizedPath) on
resolveSvgInputRead(normalizedPath) ==
  With(FileSystem[normalizedPath].content, LAMBDA svg :
    IF ~isSvgMarkup(svg)
      THEN [kind |-> "error",
            message |-> <<"File does not look like SVG markup: ", normalizedPath>>]
      ELSE [kind |-> "resolved", mode |-> "file-path", svg |-> svg,
            normalizedPath |-> normalizedPath])

-----------------------------------------------------------------------------
(* convert.ts: convertSvgToExcalidraw as the function the TUI calls *)

\* new DOMParser().parseFromString(svgMarkup, "image/svg+xml") for the markup texts of
\* the model
parseFromString ==
  (<<"<", "s", "v", "g", ">", "<", "r", "e", "c", "t", "/", ">", "<", "/", "s", "v", "g", ">">> :>
     [parseError |-> FALSE, nodes |-> <<Under(SvgRoot, 0), Under(ShownRect, 1)>>])
  @@ (<<"<", "s", "v", "g", ">", "<", "p", "a", "t", "h", "/", ">", "<", "/", "s", "v", "g", ">">> :>
     [parseError |-> FALSE, nodes |-> <<Under(SvgRoot, 0), Under(RingPath, 1)>>])
  @@ (<<"<", "s", "v", "g", ">", "<">> :> [parseError |-> TRUE, nodes |-> <<>>])

RECURSIVE ConvertEach(_, _, _, _)
\* the loop over the nodes, randomId() returning id at every call
ConvertEach(doc, list, context, id) ==
  IF list = <<>> THEN <<>>
  ELSE svgConverters(doc, Head(list), context,
                     [k \in 1..RandomCalls(doc, Head(list), context) |-> id])
       \o ConvertEach(doc, Tail(list), context, id)

\* convertSvgToExcalidraw(svgMarkup) for the parsed markup, randomId() returning id:
\* the document, or the error thrown
Converted(parsed, id) ==
  IF parsed.parseError
    THEN [kind |-> "error", message |-> "SVG parsing error"]
  ELSE IF QuerySvgRoot(parsed.nodes) = 0
    THEN [kind |-> "error",
          message |-> "Input does not contain a valid <svg> root element."]
  ELSE With(QuerySvgRoot(parsed.nodes), LAMBDA root :
    [kind |-> "document", type |-> "excalidraw", version |-> 2,
     source |-> EXCALIDRAW_SOURCE,
     elements |->
       ConvertEach(parsed.nodes,
                   SelectSeq(QuerySelectorAll(parsed.nodes, root, SUPPORTED_TAGS),
                             LAMBDA n : shouldConvertNode(parsed.nodes, n)),
                   createStyleContext(parsed.nodes, root), id)])

\* JSON.stringify(document, null, 2)
stringify(document) == <<"json", document>>

-----------------------------------------------------------------------------
(* io/clipboard.ts and index.ts: the terminal UI as a state machine *)
(* An event (a paste, a key press, the end of a wait) runs to its next wait before  *)
(* another event is taken.  A promise that is settled already, as that of            *)
(* resolveSvgInput for pasted markup and that of copyToClipboard off macOS, resumes  *)
(* its awaiter in the same event.                                                    *)

\* what the TUI does not touch
notTui == <<markup, pc, svgRoot, styleContext, nodes, cursor, elements,
            convertedSubpaths, emittedFrom, result, previous, windingVars>>

\* how many calls of copyLatestResult may wait for pbcopy at once
MaxCopying == 2

\* what is pasted or dropped into the terminal
PastedTexts ==
  {<<" ", " ">>, <<" ", "<", "s", "v", "g", ">", "<", "r", "e", "c", "t", "/", ">", "<", "/", "s", "v", "g", ">">>, <<"<", "s", "v", "g", ">", "<", "p", "a", "t", "h", "/", ">", "<", "/", "s", "v", "g", ">", " ">>, <<"<", "s", "v", "g", ">", "<">>,
   <<"'", "/", "a", ".", "s", "v", "g", "'">>, <<"/", "t", ".", "s", "v", "g">>, <<"/", "m", ".", "s", "v", "g">>, <<"/", "d">>, <<"h", "e", "l", "l", "o">>}

\* how pbcopy ends: its exit code and what it wrote to stderr
PbcopyExits ==
  {[exitCode |-> 0, stderr |-> EmptyStr], [exitCode |-> 1, stderr |-> EmptyStr],
   [exitCode |-> 1, stderr |-> <<" ", "d", "e", "n", "i", "e", "d", " ">>]}

\* copyToClipboard off macOS throws this
MacOnly == <<"Clipboard integration currently supports macOS only (pbcopy).">>

\* copyToClipboard from the exit of pbcopy on: the message of the error it throws, or
\* Null when it returns
copyToClipboardThrows(exit) ==
  IF exit.exitCode # 0
    THEN IF Len(Trim(exit.stderr)) > 0
           THEN <<"pbcopy failed: ", Trim(exit.stderr)>>
           ELSE <<"pbcopy failed with a non-zero exit code.">>
    ELSE Null

Copied == <<"Copied to clipboard with pbcopy.">>

\* the history after an event: its name, what it handed to copyToClipboard, and whether
\* it is a paste or a key press
Observe(event, copied, byUser) ==
  [observed EXCEPT !.event = event, !.copied = copied, !.message = EmptyStr,
                   !.untouchedSinceReset = IF byUser THEN FALSE ELSE @]

\* ClipboardCopyFailed, changed to leave the status as the conversion set it
ClipboardCopyFailedQuietly(base, message) ==
  /\ state' = [base EXCEPT !.clipboardMessage = message]
  /\ isBusy' = FALSE
  /\ converting' = NotConverting

\* convertCurrentInput, the catch of `await copyToClipboard(json)` and the finally block
ClipboardCopyFailed(base, message) ==
  /\ state' = [base EXCEPT !.clipboardMessage = message,
                           !.status = "error",
                           !.statusMessage = <<"Conversion worked, but clipboard copy failed. Press c to retry after fixing pbcopy.">>]
  /\ isBusy' = FALSE
  /\ converting' = NotConverting

\* convertCurrentInput from the settling of resolveSvgInput to the next wait
AfterResolve(resolution, byUser) ==
  IF resolution.kind = "error"
    THEN /\ state' = [state EXCEPT !.status = "error",
                                   !.statusMessage = resolution.message]
         /\ isBusy' = FALSE
         /\ converting' = NotConverting
         /\ observed' = Observe("convert failed", NoJson, byUser)
  ELSE \E id \in RandomIds :
    With(Converted(parseFromString[resolution.svg], id), LAMBDA document :
    With([state EXCEPT !.modeLabel = resolution.mode,
                       !.resolvedPath = resolution.normalizedPath], LAMBDA resolved :
      IF document.kind = "error"
        THEN /\ state' = [resolved EXCEPT !.status = "error",
                                          !.statusMessage = <<document.message>>]
             /\ isBusy' = FALSE
             /\ converting' = NotConverting
             /\ observed' = Observe("convert failed", NoJson, byUser)
      ELSE
        With([resolved EXCEPT
                !.latestJson = stringify(document),
                !.latestElementCount = Len(document.elements),
                !.status = "success",
                !.statusMessage = <<"Converted successfully with ",
                                    Len(document.elements), " elements.">>],
             LAMBDA success :
        With([Observe("converted", stringify(document), byUser) EXCEPT
                !.converted = stringify(document),
                !.resetAfter = FALSE,
                !.lastSuccess = stringify(document)], LAMBDA seen :
          IF platform # "darwin"
            THEN /\ ClipboardCopyFailed(success, MacOnly)
                 /\ observed' = [seen EXCEPT !.event = "converted, copy failed",
                                             !.message = MacOnly]
            ELSE /\ state' = success
                 /\ isBusy' = TRUE
                 /\ converting' = [at |-> "pbcopy"]
                 /\ observed' = seen))))

\* the paste handler
Paste(text) ==
  /\ ~exited
  /\ state' = [state EXCEPT !.rawInput = text,
                            !.modeLabel = detectInputMode(text).mode,
                            !.resolvedPath = detectInputMode(text).normalizedPath,
                            !.status = "idle",
                            !.statusMessage = <<"Input captured. Press enter to convert.">>]
  /\ observed' = Observe("paste", NoJson, TRUE)
  /\ UNCHANGED <<platform, isBusy, converting, copyingAgain, exited>>
  /\ UNCHANGED notTui

\* convertCurrentInput, changed to go on when isBusy is true
PressEnterWhileBusy ==
  /\ ~exited
  /\ IF Len(Trim(state.rawInput)) = 0
       THEN /\ state' = [state EXCEPT !.status = "error",
                                      !.statusMessage = <<"Nothing to convert yet. Paste SVG markup or drop an SVG path first.">>]
            /\ observed' = Observe("nothing to convert", NoJson, TRUE)
            /\ UNCHANGED <<isBusy, converting>>
     ELSE IF resolveSvgInput(state.rawInput).kind = "readFile"
       THEN /\ state' = [state EXCEPT !.status = "working",
                                      !.statusMessage = <<"Converting input to Excalidraw JSON...">>]
            /\ isBusy' = TRUE
            /\ converting' = [at |-> "readFile",
                              normalizedPath |->
                                resolveSvgInput(state.rawInput).normalizedPath]
            /\ observed' = Observe("reading", NoJson, TRUE)
     ELSE AfterResolve(resolveSvgInput(state.rawInput), TRUE)
  /\ UNCHANGED <<platform, copyingAgain, exited>>
  /\ UNCHANGED notTui

\* the keypress handler, return or enter: convertCurrentInput to its first wait
PressEnter ==
  /\ ~exited
  /\ IF isBusy
       THEN /\ observed' = Observe("enter while busy", NoJson, TRUE)
            /\ UNCHANGED <<state, isBusy, converting>>
     ELSE IF Len(Trim(state.rawInput)) = 0
       THEN /\ state' = [state EXCEPT !.status = "error",
                                      !.statusMessage = <<"Nothing to convert yet. Paste SVG markup or drop an SVG path first.">>]
            /\ observed' = Observe("nothing to convert", NoJson, TRUE)
            /\ UNCHANGED <<isBusy, converting>>
     ELSE IF resolveSvgInput(state.rawInput).kind = "readFile"
       THEN /\ state' = [state EXCEPT !.status = "working",
                                      !.statusMessage = <<"Converting input to Excalidraw JSON...">>]
            /\ isBusy' = TRUE
            /\ converting' = [at |-> "readFile",
                              normalizedPath |->
                                resolveSvgInput(state.rawInput).normalizedPath]
            /\ observed' = Observe("reading", NoJson, TRUE)
     ELSE AfterResolve(resolveSvgInput(state.rawInput), TRUE)
  /\ UNCHANGED <<platform, copyingAgain, exited>>
  /\ UNCHANGED notTui

\* readFile returns: resolveSvgInput and convertCurrentInput go on
FileRead ==
  /\ ~exited
  /\ converting.at = "readFile"
  /\ AfterResolve(resolveSvgInputRead(converting.normalizedPath), FALSE)
  /\ UNCHANGED <<platform, copyingAgain, exited>>
  /\ UNCHANGED notTui

\* pbcopy exits: copyToClipboard and convertCurrentInput go on to the end
ConvertCopyEnds ==
  /\ ~exited
  /\ converting.at = "pbcopy"
  /\ \E exit \in PbcopyExits :
       IF copyToClipboardThrows(exit) = Null
         THEN /\ state' = [state EXCEPT !.clipboardMessage = Copied]
              /\ isBusy' = FALSE
              /\ converting' = NotConverting
              /\ observed' = Observe("converted, copied", NoJson, FALSE)
         ELSE /\ ClipboardCopyFailed(state, copyToClipboardThrows(exit))
              /\ observed' = [Observe("converted, copy failed", NoJson, FALSE) EXCEPT
                                !.message = copyToClipboardThrows(exit)]
  /\ UNCHANGED <<platform, copyingAgain, exited>>
  /\ UNCHANGED notTui

\* copyLatestResult, the catch of `await copyToClipboard(state.latestJson)`
CopyAgainFailed(message) ==
  state' = [state EXCEPT !.status = "error",
                         !.statusMessage = <<"Copy failed: ">> \o message,
                         !.clipboardMessage = message]

\* the keypress handler, c: copyLatestResult to its wait
PressC ==
  /\ ~exited
  /\ IF state.latestJson = NoJson
       THEN /\ state' = [state EXCEPT !.status = "error",
                                      !.statusMessage = <<"No converted JSON available yet. Convert something first with enter.">>]
            /\ observed' = Observe("c, nothing to copy", NoJson, TRUE)
            /\ UNCHANGED copyingAgain
     ELSE IF platform # "darwin"
       THEN /\ CopyAgainFailed(MacOnly)
            /\ observed' = [Observe("c, copy failed", state.latestJson, TRUE) EXCEPT
                              !.message = MacOnly]
            /\ UNCHANGED copyingAgain
     ELSE /\ copyingAgain < MaxCopying
          /\ copyingAgain' = copyingAgain + 1
          /\ observed' = Observe("c, copying", state.latestJson, TRUE)
          /\ UNCHANGED state
  /\ UNCHANGED <<platform, isBusy, converting, exited>>
  /\ UNCHANGED notTui

\* pbcopy exits: copyToClipboard and copyLatestResult go on to the end
CopyAgainEnds ==
  /\ ~exited
  /\ copyingAgain > 0
  /\ copyingAgain' = copyingAgain - 1
  /\ \E exit \in PbcopyExits :
       IF copyToClipboardThrows(exit) = Null
         THEN /\ state' = [state EXCEPT !.status = "success",
                                        !.statusMessage = <<"Copied latest JSON again.">>,
                                        !.clipboardMessage = Copied]
              /\ observed' = Observe("copied again", NoJson, FALSE)
         ELSE /\ CopyAgainFailed(copyToClipboardThrows(exit))
              /\ observed' = [Observe("copy again failed", NoJson, FALSE) EXCEPT
                                !.message = copyToClipboardThrows(exit)]
  /\ UNCHANGED <<platform, isBusy, converting, exited>>
  /\ UNCHANGED notTui

\* PressR, changed to keep the result of the last conversion
PressRKeepingResult ==
  /\ ~exited
  /\ state' = [InitialState EXCEPT
                 !.latestJson = state.latestJson,
                 !.latestElementCount = state.latestElementCount,
                 !.statusMessage = <<"State reset. Paste a new SVG markup or file path.">>]
  /\ observed' = [Observe("reset", NoJson, TRUE) EXCEPT !.resetAfter = TRUE,
                                                        !.lastSuccess = NoJson,
                                                        !.untouchedSinceReset = TRUE]
  /\ UNCHANGED <<platform, isBusy, converting, copyingAgain, exited>>
  /\ UNCHANGED notTui

\* the keypress handler, r: resetState
PressR ==
  /\ ~exited
  /\ state' = [InitialState EXCEPT
                 !.statusMessage = <<"State reset. Paste a new SVG markup or file path.">>]
  /\ observed' = [Observe("reset", NoJson, TRUE) EXCEPT !.resetAfter = TRUE,
                                                        !.lastSuccess = NoJson,
                                                        !.untouchedSinceReset = TRUE]
  /\ UNCHANGED <<platform, isBusy, converting, copyingAgain, exited>>
  /\ UNCHANGED notTui

\* the keypress handler, q: the process exits, and with it whatever was waiting
PressQ ==
  /\ ~exited
  /\ exited' = TRUE
  /\ observed' = Observe("quit", NoJson, TRUE)
  /\ UNCHANGED <<platform, state, isBusy, converting, copyingAgain>>
  /\ UNCHANGED notTui

NextTui ==
  \/ \E text \in PastedTexts : Paste(text)
  \/ PressEnter
  \/ FileRead
  \/ ConvertCopyEnds
  \/ PressC
  \/ CopyAgainEnds
  \/ PressR
  \/ PressQ

InitTui ==
  /\ NoConversion
  /\ NoWindingCall
  /\ TuiStarts({"darwin", "linux"})

\* the terminal UI, on macOS and elsewhere
SpecTui == InitTui /\ [][NextTui]_vars

-----------------------------------------------------------------------------
(* geometry.ts: getWindingOrder called with a point sequence and its reversal *)

RECURSIVE Reversed(_)
\* the sequence back to front
Reversed(seq) ==
  IF seq = <<>> THEN <<>> ELSE Append(Reversed(Tail(seq)), Head(seq))

\* the coordinates of the points
Coordinates == {0 - 1, 0, 2}

MaxPoints == 3

\* the point sequences of 0..n points
PointSequences(n) == UNION {[1..k -> Coordinates \X Coordinates] : k \in 0..n}

\* getWindingOrder(points)
WindingOfOriginal ==
  /\ windingOf.original = <<>>
  /\ windingOf' = [windingOf EXCEPT !.original = <<getWindingOrder(windingInput)>>]
  /\ UNCHANGED <<markup, pc, svgRoot, styleContext, nodes, cursor, elements,
                 convertedSubpaths, emittedFrom, result, previous, windingInput>>
  /\ UNCHANGED tuiVars

\* getWindingOrder([...points].reverse())
WindingOfReversed ==
  /\ windingOf.reversed = <<>>
  /\ windingOf' = [windingOf EXCEPT !.reversed = <<getWindingOrder(Reversed(windingInput))>>]
  /\ UNCHANGED <<markup, pc, svgRoot, styleContext, nodes, cursor, elements,
                 convertedSubpaths, emittedFrom, result, previous, windingInput>>
  /\ UNCHANGED tuiVars

NextWinding == WindingOfOriginal \/ WindingOfReversed

InitWinding ==
  /\ NoConversion
  /\ windingInput \in PointSequences(MaxPoints)
  /\ windingOf = NotCalled
  /\ NoTui

SpecWinding == InitWinding /\ [][NextWinding]_vars

-----------------------------------------------------------------------------
(* Claims checked under Spec: whole documents *)

RECURSIVE HasAncestorTagged(_, _, _)
\* some proper ancestor of n has one of the tags, as the markup spells them
HasAncestorTagged(doc, n, tags) ==
  IF ParentElement(doc, n) = 0 THEN FALSE
  ELSE IF TagName(doc, ParentElement(doc, n)) \in tags THEN TRUE
  ELSE HasAncestorTagged(doc, ParentElement(doc, n), tags)

\* C1: a supported-tag node that has a <defs> or a <clipPath> ancestor never
\* contributes an element to the output list of convertSvgToExcalidraw, whatever
\* its own display, visibility or opacity values are.
C1_NestedInDefsOrClipPathNeverEmitted ==
  \A k \in 1..Len(emittedFrom) :
    ~HasAncestorTagged(markup.nodes, emittedFrom[k][1], {Tag.defs, Tag.clipPath})

\* C4: a call has exactly one of two outcomes.  It throws and returns no document
\* (the markup does not parse, or it has no <svg> element), or it returns a document
\* of type "excalidraw", version 2 and source "https://excalidraw.com" with the
\* element list; until one of the two has happened nothing is returned.
C4_ErrorOrWholeDocument ==
  /\ result.kind \in {"none", "error", "document"}
  /\ (pc \in {"start", "convert"}) <=> (result.kind = "none")
  /\ (pc = "error") <=> (result.kind = "error")
  /\ (pc = "done") <=> (result.kind = "document")
  /\ result.kind = "error" =>
       /\ markup.parseError \/ QuerySvgRoot(markup.nodes) = 0
       /\ DOMAIN result = {"kind", "message"}
       /\ elements = <<>>
  /\ result.kind = "document" =>
       /\ ~markup.parseError
       /\ QuerySvgRoot(markup.nodes) # 0
       /\ result.type = "excalidraw"
       /\ result.version = 2
       /\ result.source = "https://excalidraw.com"
       /\ result.elements = elements
       /\ cursor = Len(nodes) + 1

\* a fatal error on markup that parses and holds a supported node, but no <svg>
C4_Witness ==
  /\ pc = "error"
  /\ ~markup.parseError
  /\ \E n \in 1..Len(markup.nodes) : TagName(markup.nodes, n) \in SUPPORTED_TAGS

\* C5: the output keeps document order.  The elements of a node that comes earlier
\* in the input come earlier in the list, and the elements of one path are
\* contiguous and in subpath order; each element of the path converted last is
\* the element of the subpath at its place.
C5_DocumentOrderKept ==
  /\ Len(emittedFrom) = Len(elements)
  /\ \A j, k \in 1..Len(emittedFrom) :
       j < k => \/ emittedFrom[j][1] < emittedFrom[k][1]
                \/ /\ emittedFrom[j][1] = emittedFrom[k][1]
                   /\ emittedFrom[j][2] < emittedFrom[k][2]
  /\ \A k \in 1..Len(emittedFrom) :
       /\ \E c \in 1..Len(nodes) : c < cursor /\ nodes[c] = emittedFrom[k][1]
       /\ (emittedFrom[k][2] > 0 /\ emittedFrom[k][1] = nodes[cursor - 1]) =>
            /\ emittedFrom[k][2] <= Len(convertedSubpaths)
            /\ elements[k].x = convertedSubpaths[emittedFrom[k][2]].x
            /\ elements[k].y = convertedSubpaths[emittedFrom[k][2]].y
  /\ pc = "done" => result.elements = elements

\* a finished conversion whose list holds the two elements of one path and the
\* element of another node
C5_Witness ==
  /\ pc = "done"
  /\ \E j, k \in 1..Len(emittedFrom) :
       /\ emittedFrom[j][1] = emittedFrom[k][1]
       /\ emittedFrom[j][2] # emittedFrom[k][2]
  /\ \E j, k \in 1..Len(emittedFrom) : emittedFrom[j][1] # emittedFrom[k][1]

\* C13: within one conversion run no two elements of the element list have the same
\* id, whatever the input tree and whatever randomId() returns.
C13_ElementIdsAreUnique ==
  \A i, j \in 1..Len(elements) : i # j => elements[i].id # elements[j].id

\* the output elements made from node n
ElementsOf(n) == {k \in 1..Len(elements) : emittedFrom[k][1] = n}

\* both calls have returned a document
ReturnedTwice == previous.kind = "document" /\ result.kind = "document"

\* the element without the values randomId() gave it
WithoutIds(element) == [element EXCEPT !.id = "", !.groupIds = <<>>]

\* elements i and j of the list have a group id in common
ShareGroupId(list, i, j) ==
  \E a \in 1..Len(list[i].groupIds), b \in 1..Len(list[j].groupIds) :
    list[i].groupIds[a] = list[j].groupIds[b]

\* the two lists have the same length and agree, position by position, in every field
\* other than id and groupIds
AgreeOutsideIds(first, second) ==
  /\ Len(first) = Len(second)
  /\ \A k \in 1..Len(first) : WithoutIds(first[k]) = WithoutIds(second[k])

\* C14: two runs on the same markup return element lists of the same length that agree
\* position by position in every field other than the generated ids, and agree on
\* which elements share a group id.
C14_TwoRunsAgree ==
  ReturnedTwice =>
    /\ AgreeOutsideIds(previous.elements, result.elements)
    /\ \A i, j \in 1..Len(result.elements) :
         ShareGroupId(previous.elements, i, j) <=> ShareGroupId(result.elements, i, j)

\* what holds of two runs for every outcome of randomId(): same outcome kind, same
\* length, same fields other than the ids, the same elements grouped, and the elements
\* of one node sharing a group id in both runs or in neither
TwoRunsAgreeOutsideIds ==
  /\ (previous # NoResult /\ result # NoResult) => previous.kind = result.kind
  /\ ReturnedTwice =>
       /\ AgreeOutsideIds(previous.elements, result.elements)
       /\ \A k \in 1..Len(result.elements) :
            Len(previous.elements[k].groupIds) = Len(result.elements[k].groupIds)
       /\ \A i, j \in 1..Len(result.elements) :
            emittedFrom[i][1] = emittedFrom[j][1] =>
              (ShareGroupId(previous.elements, i, j) <=> ShareGroupId(result.elements, i, j))

-----------------------------------------------------------------------------
(* Claims checked under SpecPath: the subpaths of a path and its elements *)

\* element k was made by the path converted last, whose subpaths are convertedSubpaths
FromLastPath(k) ==
  /\ emittedFrom[k][2] > 0
  /\ emittedFrom[k][1] = nodes[cursor - 1]

\* C2: for a path with a visible fill, under both fill rules, every closed subpath
\* marked as a hole is emitted, and with backgroundColor "transparent", never with
\* the fill colour of the path, wherever it stands among the subpaths.
C2_HolesAreTransparent ==
  \A k \in 1..Len(emittedFrom) :
    ( /\ FromLastPath(k)
      /\ getFillColor(markup.nodes, emittedFrom[k][1], styleContext) # Value.transparent
      /\ convertedSubpaths[emittedFrom[k][2]].isClosed
      /\ convertedSubpaths[emittedFrom[k][2]].isHole )
    => elements[k].backgroundColor = Value.transparent

\* C3: when a path yields two or more subpaths, all its elements carry the same
\* groupIds list of exactly one generated id; when it yields one subpath, the
\* groupIds list of its element is empty.
C3_OneGroupIdPerPath ==
  \A k \in 1..Len(emittedFrom) :
    FromLastPath(k) =>
      IF Len(convertedSubpaths) >= 2
        THEN /\ Len(elements[k].groupIds) = 1
             /\ elements[k].groupIds[1] \in RandomIds
             /\ \A j \in 1..Len(emittedFrom) :
                  FromLastPath(j) => elements[j].groupIds = elements[k].groupIds
        ELSE elements[k].groupIds = <<>>

\* a path of two subpaths, both emitted
C3_Witness ==
  /\ pc = "done"
  /\ Len(convertedSubpaths) = 2
  /\ \E j, k \in 1..Len(emittedFrom) :
       j # k /\ FromLastPath(j) /\ FromLastPath(k)

\* getPolygonArea of subpath i of convertedSubpaths, as buildSubpathData computes it
AreaOf(i) == getPolygonArea(convertedSubpaths[i].relativePoints)

\* C8: after markHoleSubpaths has run on two or more subpaths, the subpath of the
\* largest area, the first of them in subpath order when areas tie, is not a hole.
C8_LargestIsNotAHole ==
  Len(convertedSubpaths) >= 2 =>
    \A i \in 1..Len(convertedSubpaths) :
      ( /\ \A j \in 1..Len(convertedSubpaths) : AreaOf(j) <= AreaOf(i)
        /\ \A j \in 1..(i - 1) : AreaOf(j) < AreaOf(i) )
      => ~convertedSubpaths[i].isHole

\* two subpaths, the first of which was marked as a hole of the larger second
C8_Witness ==
  /\ Len(convertedSubpaths) = 2
  /\ convertedSubpaths[1].isHole
  /\ AreaOf(1) < AreaOf(2)

\* C9: the first entry of relativePoints of every subpath convertPathToSubpaths
\* returns, and the first entry of points of every line, arrow and draw element,
\* is [0, 0], for every point list and every transform.
C9_PointsStartAtOrigin ==
  /\ \A i \in 1..Len(convertedSubpaths) :
       convertedSubpaths[i].relativePoints[1] = <<0, 0>>
  /\ \A k \in 1..Len(elements) :
       elements[k].type \in {"line", "arrow", "draw"} =>
         elements[k].points[1] = <<0, 0>>

\* a transformed path whose subpath and draw element start away from the origin
C9_Witness ==
  /\ Len(convertedSubpaths) > 0
  /\ convertedSubpaths[1].x # 0
  /\ HasAttribute(markup.nodes, nodes[1], Attr.transform)
  /\ \E k \in 1..Len(elements) : elements[k].type = "draw" /\ elements[k].x # 0

\* the points of the points attribute of node n: its numbers taken two by two, a last
\* number without a partner left out
ParsedPoints(doc, n) ==
  IF ~HasAttribute(doc, n, Attr.points) THEN <<>>
  ELSE With(doc[n].attrs[Attr.points], LAMBDA numbers :
         Array([i \in 1..(Len(numbers) \div 2) |-> <<numbers[2 * i - 1], numbers[2 * i]>>]))

\* the points, each as its offset from the first
FromFirst(pointList) ==
  Array([i \in 1..Len(pointList) |->
           <<pointList[i][1] - pointList[1][1], pointList[i][2] - pointList[1][2]>>])

\* the parsed points of node n where its accumulated transform puts them
PlacedPoints(doc, n) ==
  Array([i \in 1..Len(ParsedPoints(doc, n)) |->
           applyToPoint(getAccumulatedTransform(doc, n), ParsedPoints(doc, n)[i])])

\* node n and its ancestors have no transform attribute
Untransformed(doc, n) ==
  \A m \in 1..Len(doc) :
    (m = n \/ IsDescendantOf(doc, n, m)) => ~HasAttribute(doc, m, Attr.transform)

\* the nodes of the list that have the tag and at least two parsed points
NodesWithPoints(tag) ==
  {c \in 1..(cursor - 1) :
     /\ markup.nodes[nodes[c]].tag = tag
     /\ Len(ParsedPoints(markup.nodes, nodes[c])) >= 2}

\* C16: a polygon with at least 2 parsed points yields one element whose points are the
\* parsed points (where the accumulated transform puts them) relative to the first,
\* followed by one extra point [0,0]; a polyline yields one element with exactly as many
\* points as were parsed, none appended.
C16_PolygonClosedPolylineOpen ==
  /\ \A c \in NodesWithPoints(Tag.polygon) :
       /\ Cardinality(ElementsOf(nodes[c])) = 1
       /\ \A k \in ElementsOf(nodes[c]) :
            /\ elements[k].points
                 = FromFirst(PlacedPoints(markup.nodes, nodes[c])) \o <<<<0, 0>>>>
            /\ Untransformed(markup.nodes, nodes[c]) =>
                 elements[k].points
                   = FromFirst(ParsedPoints(markup.nodes, nodes[c])) \o <<<<0, 0>>>>
            /\ elements[k].points[Len(elements[k].points)] = <<0, 0>>
  /\ \A c \in NodesWithPoints(Tag.polyline) :
       /\ Cardinality(ElementsOf(nodes[c])) = 1
       /\ \A k \in ElementsOf(nodes[c]) :
            /\ Len(elements[k].points) = Len(ParsedPoints(markup.nodes, nodes[c]))
            /\ elements[k].points = FromFirst(PlacedPoints(markup.nodes, nodes[c]))

\* a mirrored polygon of three parsed points converted to four points, the last [0,0]
C16_Witness ==
  \E c \in NodesWithPoints(Tag.polygon) :
    /\ Len(ParsedPoints(markup.nodes, nodes[c])) = 3
    /\ HasAttribute(markup.nodes, nodes[c], Attr.transform)
    /\ \E k \in ElementsOf(nodes[c]) :
         /\ Len(elements[k].points) = 4
         /\ elements[k].points[4] = <<0, 0>>
         /\ elements[k].points[2] # <<3, 4>>

\* the path has no fill-rule attribute of its own and the nearest ancestor that has one
\* says evenodd
InheritsEvenOdd(doc, n) ==
  /\ ~HasAttribute(doc, n, Attr.fill_rule)
  /\ getPathFillRule(doc, n) = Value.evenodd

\* C23: the fill rule in effect for a path is its own fill-rule attribute, else the
\* nearest ancestor's, else nonzero, and the same rule governs hole classification and
\* fill colour: for a path without an own fill-rule attribute whose nearest declaring
\* ancestor has fill-rule="evenodd", a closed filled subpath is emitted transparent
\* exactly when it is marked a hole.
C23_InheritedFillRuleGovernsColour ==
  \A k \in 1..Len(emittedFrom) :
    ( /\ FromLastPath(k)
      /\ InheritsEvenOdd(markup.nodes, emittedFrom[k][1])
      /\ getFillColor(markup.nodes, emittedFrom[k][1], styleContext) # Value.transparent
      /\ convertedSubpaths[emittedFrom[k][2]].isClosed )
    => ( elements[k].backgroundColor = Value.transparent
         <=> convertedSubpaths[emittedFrom[k][2]].isHole )

\* the same for a path whose own fill-rule attribute says evenodd
OwnEvenOddGovernsColour ==
  \A k \in 1..Len(emittedFrom) :
    ( /\ FromLastPath(k)
      /\ GetAttribute(markup.nodes, emittedFrom[k][1], Attr.fill_rule) = Value.evenodd
      /\ getFillColor(markup.nodes, emittedFrom[k][1], styleContext) # Value.transparent
      /\ convertedSubpaths[emittedFrom[k][2]].isClosed )
    => ( elements[k].backgroundColor = Value.transparent
         <=> convertedSubpaths[emittedFrom[k][2]].isHole )

\* the elements of the nodes with that tag are arrows when a marker of the node yields
\* an arrowhead, and lines when none does
ArrowIffMarker(tag) ==
  \A c \in NodesWithPoints(tag) : \A k \in ElementsOf(nodes[c]) :
    elements[k].type =
      IF shouldUseArrowType(markup.nodes, nodes[c], styleContext) THEN "arrow" ELSE "line"

\* C26: for both polygon and polyline, when the node's resolved marker-start or
\* marker-end yields an arrowhead the shape is emitted as an Arrow element instead of a
\* Line; when neither does, it is emitted as a Line.
C26_PolygonAndPolylineArrowIffMarker ==
  ArrowIffMarker(Tag.polygon) /\ ArrowIffMarker(Tag.polyline)

\* the polyline half of C26
PolylineArrowIffMarker == ArrowIffMarker(Tag.polyline)

-----------------------------------------------------------------------------
(* Claims checked under SpecShape: shapes and lines under transforms *)

\* the text of the attribute is declared and stands for no number, for zero or
\* for a negative number
ZeroNegativeOrUnparsable(doc, n, name) ==
  /\ HasAttribute(doc, n, name)
  /\ ParseFloat(GetAttribute(doc, n, name)).nan
     \/ ParseFloat(GetAttribute(doc, n, name)).v <= 0

\* a rect, circle or ellipse with such a width, height or radius
Degenerate(doc, n) ==
  \/ /\ TagName(doc, n) = Tag.rect
     /\ \/ ZeroNegativeOrUnparsable(doc, n, Attr.width)
        \/ ZeroNegativeOrUnparsable(doc, n, Attr.height)
  \/ /\ TagName(doc, n) = Tag.circle
     /\ ZeroNegativeOrUnparsable(doc, n, Attr.r)
  \/ /\ TagName(doc, n) = Tag.ellipse
     /\ \/ ZeroNegativeOrUnparsable(doc, n, Attr.rx)
        \/ ZeroNegativeOrUnparsable(doc, n, Attr.ry)

\* C6: a rect whose width or height, a circle whose r, an ellipse whose rx or ry is
\* zero, negative or unparsable yields no output element, under every accumulated
\* transform.
C6_DegenerateShapesYieldNothing ==
  \A c \in 1..Len(nodes) :
    (c < cursor /\ Degenerate(markup.nodes, nodes[c])) =>
      \A k \in 1..Len(emittedFrom) : emittedFrom[k][1] # nodes[c]

\* a finished conversion of a rect of negative width under a mirroring group
C6_Witness ==
  /\ pc = "done"
  /\ Len(nodes) = 1
  /\ TagName(markup.nodes, nodes[1]) = Tag.rect
  /\ GetAttribute(markup.nodes, nodes[1], Attr.width) = N_minus3
  /\ GetAttribute(markup.nodes, nodes[1], Attr.height) = N_4
  /\ getAccumulatedTransform(markup.nodes, nodes[1]).a < 0
  /\ result.elements = <<>>

RECURSIVE OwnMatricesUpward(_, _)
\* the own matrices of n and of its ancestors below the root <svg>, n's first
OwnMatricesUpward(doc, n) ==
  IF n = 0 \/ TagName(doc, n) = Tag.svg THEN <<>>
  ELSE <<getTransformMatrix(doc, n)>> \o OwnMatricesUpward(doc, ParentElement(doc, n))

RECURSIVE ThroughEach(_, _)
\* the point transformed by the matrices one after the other, the first first
ThroughEach(matrices, point) ==
  IF matrices = <<>> THEN point
  ELSE ThroughEach(Tail(matrices), applyToPoint(Head(matrices), point))

\* the two end points of line n as its attributes give them
EndPoints(doc, n) ==
  <<<<getNumericAttribute(doc, n, Attr.x1, 0), getNumericAttribute(doc, n, Attr.y1, 0)>>,
    <<getNumericAttribute(doc, n, Attr.x2, 0), getNumericAttribute(doc, n, Attr.y2, 0)>>>>

\* the end points of the element made for a line: (x, y) and (x, y) + points[2]
ElementEndPoints(element) ==
  <<<<element.x, element.y>>,
    <<element.x + element.points[2][1], element.y + element.points[2][2]>>>>

\* the end points of every line element are those of its node taken through the
\* own matrices in the given order; so is the accumulated transform of the node
\* applied to them
AccumulatedIsSequential(Order(_)) ==
  \A k \in 1..Len(emittedFrom) :
    TagName(markup.nodes, emittedFrom[k][1]) = Tag.line =>
      \A e \in 1..2 :
        /\ ElementEndPoints(elements[k])[e]
             = ThroughEach(Order(OwnMatricesUpward(markup.nodes, emittedFrom[k][1])),
                           EndPoints(markup.nodes, emittedFrom[k][1])[e])
        /\ transformPoint(EndPoints(markup.nodes, emittedFrom[k][1])[e],
                          getAccumulatedTransform(markup.nodes, emittedFrom[k][1]))
             = ElementEndPoints(elements[k])[e]

\* C7 as stated: applying getAccumulatedTransform(node) to a point gives the
\* position reached by transforming the point through each element's own matrix
\* from the outermost ancestor to the innermost, the node's own matrix last.
C7_OutermostFirst == AccumulatedIsSequential(Reversed)

\* C7 amended: applying getAccumulatedTransform(node) to a point gives the position
\* reached by transforming the point through each element's own matrix from the
\* innermost to the outermost: the node's own matrix first, the outermost
\* ancestor's last.
C7_InnermostFirst == AccumulatedIsSequential(LAMBDA matrices : matrices)

\* a line with a scale of its own inside a translated group inside a mirrored group
C7_Witness ==
  /\ Len(markup.nodes) = 4
  /\ Len(emittedFrom) = 1
  /\ TagName(markup.nodes, 4) = Tag.line
  /\ \A n \in 2..4 : HasAttribute(markup.nodes, n, Attr.transform)
  /\ getTransformMatrix(markup.nodes, 2).a < 0
  /\ getTransformMatrix(markup.nodes, 3).e # 0
  /\ ThroughEach(OwnMatricesUpward(markup.nodes, 4), <<1, 2>>)
       # ThroughEach(Reversed(OwnMatricesUpward(markup.nodes, 4)), <<1, 2>>)

\* the arrowhead the claim gives a marker value (containment ignores letter case,
\* "none" is the exact text, and the cases are tried in the order written)
ArrowheadFor(value) ==
  IF value = Null \/ value = Value.none THEN "null"
  ELSE IF value = EmptyStr THEN "null"
  ELSE IF \E i \in 0..Len(value) :
            \/ StartsWith(SubSeq(ToLowerCase(value), i + 1, Len(value)), Value.dot)
            \/ StartsWith(SubSeq(ToLowerCase(value), i + 1, Len(value)), Value.circle)
    THEN "dot"
  ELSE IF \E i \in 0..Len(value) :
            StartsWith(SubSeq(ToLowerCase(value), i + 1, Len(value)), Value.bar)
    THEN "bar"
  ELSE "arrow"

\* C10: a <line> is emitted as an arrow exactly when its resolved marker-start or
\* marker-end yields an arrowhead, otherwise as a line with transparent fill; an
\* arrowhead is null for an absent marker value and for "none", "dot" for a value
\* containing "dot" or "circle", "bar" for one containing "bar", and "arrow" for
\* any other non-empty value.
C10_LineIsArrowIffMarker ==
  /\ \A c \in 1..Len(nodes) :
       (c < cursor /\ TagName(markup.nodes, nodes[c]) = Tag.line) =>
         \E k \in 1..Len(emittedFrom) : emittedFrom[k][1] = nodes[c]
  /\ \A k \in 1..Len(emittedFrom) :
       TagName(markup.nodes, emittedFrom[k][1]) = Tag.line =>
         With([startArrowhead |->
                 ArrowheadFor(getPresentationValue(markup.nodes, emittedFrom[k][1],
                                                   styleContext, Attr.marker_start)),
               endArrowhead |->
                 ArrowheadFor(getPresentationValue(markup.nodes, emittedFrom[k][1],
                                                   styleContext, Attr.marker_end))],
              LAMBDA heads :
                IF heads.startArrowhead # "null" \/ heads.endArrowhead # "null"
                  THEN /\ elements[k].type = "arrow"
                       /\ elements[k].startArrowhead = heads.startArrowhead
                       /\ elements[k].endArrowhead = heads.endArrowhead
                  ELSE /\ elements[k].type = "line"
                       /\ elements[k].backgroundColor = Value.transparent)

\* the line with marker-end="url(#arrow)" alone, emitted as an arrow
C10_Witness ==
  /\ Len(elements) = 1
  /\ TagName(markup.nodes, emittedFrom[1][1]) = Tag.line
  /\ GetAttribute(markup.nodes, emittedFrom[1][1], Attr.marker_end) = UrlArrow
  /\ ~HasAttribute(markup.nodes, emittedFrom[1][1], Attr.marker_start)
  /\ elements[1].type = "arrow"
  /\ elements[1].endArrowhead = "arrow"
  /\ elements[1].startArrowhead = "null"

-----------------------------------------------------------------------------
(* Claims checked under SpecWinding: winding of a sequence and of its reversal *)

\* getWindingOrder returned for the sequence and for its reversal
BothWindingsKnown == windingOf.original # <<>> /\ windingOf.reversed # <<>>

\* C11 as stated: for every point sequence, the reversed sequence is reported with the
\* opposite direction.
C11_ReversalFlipsWinding ==
  BothWindingsKnown => windingOf.original[1].direction # windingOf.reversed[1].direction

\* C11: reversing negates the shoelace sum; the direction flips when the sum is not zero,
\* and a sequence whose sum is zero (no point, one point, points on a line) is reported
\* counter-clockwise in both orders.
C11_ReversalFlipsNonZeroWinding ==
  BothWindingsKnown =>
    /\ windingOf.reversed[1].signedArea = 0 - windingOf.original[1].signedArea
    /\ windingOf.original[1].signedArea # 0 =>
         windingOf.original[1].direction # windingOf.reversed[1].direction
    /\ windingOf.original[1].signedArea = 0 =>
         /\ windingOf.original[1].direction = "counter-clockwise"
         /\ windingOf.reversed[1].direction = "counter-clockwise"

\* a triangle reported clockwise whose reversal is reported counter-clockwise
C11_Witness ==
  /\ BothWindingsKnown
  /\ Len(windingInput) = 3
  /\ windingOf.original[1].direction = "clockwise"
  /\ windingOf.reversed[1].direction = "counter-clockwise"

-----------------------------------------------------------------------------
(* Claims checked under SpecCascade: style resolution *)

\* the text names the property, in any case
Mentions(text, property) ==
  IF text = Null THEN FALSE ELSE IndexOfSub(ToLowerCase(text), property, 0) >= 0

\* node m has the attribute, or a style attribute that names the property
SuppliesHere(doc, m, property) ==
  HasAttribute(doc, m, property) \/ Mentions(GetAttribute(doc, m, Attr.style), property)

\* nothing supplies the property to node n: neither n nor an ancestor has the attribute
\* or names the property in a style attribute, and n has no class or no <style>
\* element names the property
Unsupplied(doc, n, property) ==
  /\ \A m \in 1..Len(doc) : (m = n \/ IsDescendantOf(doc, n, m)) => ~SuppliesHere(doc, m, property)
  /\ \/ ~HasAttribute(doc, n, Attr.class)
     \/ \A s \in 1..Len(doc) : doc[s].tag = Tag.style => ~Mentions(doc[s].text, property)

\* the styleContext is built
StyleContextBuilt == pc \in {"convert", "done"}

\* the properties resolved for the nodes of the inputs
ResolvedProperties == {Attr.fill, Attr.stroke, Attr.stroke_width, Attr.font_size, Attr.text_anchor}

\* C12: for a node to which no inline style, no attribute, no class rule and no ancestor
\* supplies the property, getPresentationValue returns null, the numeric resolvers return
\* the caller's fallback, getFillColor returns "#000000" and getStrokeColor returns
\* "transparent"; the elements made from the node carry these defaults.
C12_UnsuppliedResolvesToDefault ==
  StyleContextBuilt =>
    \A n \in 1..Len(markup.nodes) :
      /\ \A property \in ResolvedProperties :
           Unsupplied(markup.nodes, n, property) =>
             /\ getPresentationValue(markup.nodes, n, styleContext, property) = Null
             /\ getNumericPresentationValue(markup.nodes, n, styleContext, property, 7) = 7
             /\ getNumericAttribute(markup.nodes, n, property, 7) = 7
      /\ Unsupplied(markup.nodes, n, Attr.fill) =>
           /\ getFillColor(markup.nodes, n, styleContext) = <<"#", "0", "0", "0", "0", "0", "0">>
           /\ \A k \in ElementsOf(n) :
                /\ elements[k].type = "rectangle" => elements[k].backgroundColor = <<"#", "0", "0", "0", "0", "0", "0">>
                /\ elements[k].type = "text" => elements[k].strokeColor = <<"#", "0", "0", "0", "0", "0", "0">>
      /\ Unsupplied(markup.nodes, n, Attr.stroke) =>
           /\ getStrokeColor(markup.nodes, n, styleContext) = <<"t", "r", "a", "n", "s", "p", "a", "r", "e", "n", "t">>
           /\ \A k \in ElementsOf(n) :
                elements[k].type = "rectangle" => elements[k].strokeColor = <<"t", "r", "a", "n", "s", "p", "a", "r", "e", "n", "t">>
      /\ Unsupplied(markup.nodes, n, Attr.font_size) =>
           \A k \in ElementsOf(n) : elements[k].type = "text" => elements[k].fontSize = 20

\* a text with a class and a style attribute, under a styled group, beside a <style>
\* element with rules, none of which names fill or font-size: the text element is
\* black and of size 20
C12_Witness ==
  /\ pc = "done"
  /\ \E n \in 1..Len(markup.nodes) :
       /\ markup.nodes[n].tag = Tag.text
       /\ HasAttribute(markup.nodes, n, Attr.class)
       /\ HasAttribute(markup.nodes, n, Attr.style)
       /\ markup.nodes[2].text # EmptyStr
       /\ DOMAIN markup.nodes[3].attrs # {}
       /\ Unsupplied(markup.nodes, n, Attr.fill)
       /\ Unsupplied(markup.nodes, n, Attr.font_size)
       /\ \E k \in ElementsOf(n) :
            elements[k].strokeColor = <<"#", "0", "0", "0", "0", "0", "0">> /\ elements[k].fontSize = 20

-----------------------------------------------------------------------------
(* Claims checked under SpecText: the box of a text element *)

RECURSIVE DeclaredFrom(_, _, _)
\* the attribute as node n or its nearest ancestor declares it (Null: nobody does)
DeclaredFrom(doc, n, name) ==
  IF n = 0 THEN Null
  ELSE IF HasAttribute(doc, n, name) THEN GetAttribute(doc, n, name)
  ELSE DeclaredFrom(doc, ParentElement(doc, n), name)

\* the number of characters of the longest line of the text
LongestLine(text) ==
  With(Split(text, "\n"), LAMBDA lines : SetMax({Len(lines[k]) : k \in 1..Len(lines)}))

\* the number of lines of the text
LineCount(text) == Len(Split(text, "\n"))

\* the x of the text's anchor point after the accumulated transform, in units of 1/TextScale
TransformedAnchorX(doc, n) ==
  TextScale * transformPoint(getTextAnchorPoint(doc, n), getAccumulatedTransform(doc, n))[1]

\* twice the x of element e is the anchor x of node n, moved left by half the width for
\* text-anchor "middle" and by the whole width for "end"
PlacedByAnchor(doc, n, e) ==
  With(DeclaredFrom(doc, n, Attr.text_anchor), LAMBDA textAnchor :
    2 * e.x = 2 * TransformedAnchorX(doc, n)
              - (IF textAnchor = <<"m", "i", "d", "d", "l", "e">> THEN e.width
                 ELSE IF textAnchor = <<"e", "n", "d">> THEN 2 * e.width
                 ELSE 0))

\* the text elements, each with the node it comes from
TextElements == {k \in 1..Len(elements) : elements[k].type = "text"}

\* C15 as stated: the width of a text element is (longest line's character count x font
\* size x 0.6), its height (line count x font size x 1.25), and its x follows text-anchor.
\* (x, width and height are in units of 1/TextScale: 0.6 is 24, 1.25 is 50.)
C15_TextBoxIsTheProduct ==
  \A k \in TextElements :
    /\ elements[k].width = LongestLine(elements[k].text) * elements[k].fontSize * 24
    /\ elements[k].height = LineCount(elements[k].text) * elements[k].fontSize * 50
    /\ PlacedByAnchor(markup.nodes, emittedFrom[k][1], elements[k])

\* C15: the width is that product but at least 1, the height is the product, the font
\* size is the declared one but at least 1 (20 when none is declared), and x follows
\* text-anchor with the width so computed.
C15_TextBoxIsTheProductOrOne ==
  \A k \in TextElements :
    /\ elements[k].width
         = IntMax(TextScale, LongestLine(elements[k].text) * elements[k].fontSize * 24)
    /\ elements[k].height = LineCount(elements[k].text) * elements[k].fontSize * 50
    /\ elements[k].fontSize
         = With(DeclaredFrom(markup.nodes, emittedFrom[k][1], Attr.font_size),
                LAMBDA declared : IF declared = Null THEN 20
                                  ELSE IntMax(1, ParseFloat(declared).v))
    /\ PlacedByAnchor(markup.nodes, emittedFrom[k][1], elements[k])

\* a one-letter text of size 1, anchored in the middle at x = 4 under scale(2, 3): its
\* width is 1 and its x is 8 - 1/2
C15_Witness ==
  /\ pc = "done"
  /\ \E k \in TextElements :
       /\ elements[k].text = <<"A">>
       /\ elements[k].fontSize = 1
       /\ elements[k].width = TextScale
       /\ DeclaredFrom(markup.nodes, emittedFrom[k][1], Attr.text_anchor) = <<"m", "i", "d", "d", "l", "e">>
       /\ HasAttribute(markup.nodes, emittedFrom[k][1], Attr.transform)
       /\ 2 * elements[k].x = 2 * TextScale * 8 - TextScale

-----------------------------------------------------------------------------
(* Claims checked under SpecBroken: failures that one node recovers from *)

\* node n is a path whose d attribute is missing, empty or rejected by pointsOnPath
IsBrokenPath(doc, n) ==
  /\ doc[n].tag = Tag.path
  /\ \/ ~HasAttribute(doc, n, Attr.d)
     \/ doc[n].attrs[Attr.d].empty
     \/ doc[n].attrs[Attr.d].throws

\* node n has a transform attribute that fromTransformAttribute rejects
HasMalformedTransform(doc, n) ==
  HasAttribute(doc, n, Attr.transform) /\ doc[n].attrs[Attr.transform].throws

\* the attributes without the transform attribute
WithoutTransform(attrs) == [name \in (DOMAIN attrs) \ {Attr.transform} |-> attrs[name]]

\* the document with every broken path replaced by an empty group and every malformed
\* transform attribute taken away
Repaired(doc) ==
  Array([n \in 1..Len(doc) |->
           IF IsBrokenPath(doc, n) THEN Under(Group, doc[n].parent)
           ELSE IF HasMalformedTransform(doc, n)
             THEN [doc[n] EXCEPT !.attrs = WithoutTransform(doc[n].attrs)]
           ELSE doc[n]])

\* the output elements made from node n, in their order, without their ids
ElementListOf(n) ==
  With(SelectSeq(Array([k \in 1..Len(elements) |-> k]), LAMBDA k : emittedFrom[k][1] = n),
       LAMBDA places : Array([i \in 1..Len(places) |-> WithoutIds(elements[places[i]])]))

\* the elements the converters make from node n of the repaired document, without ids
ElementListRepaired(doc, n) ==
  With(svgConverters(Repaired(doc), n,
                     createStyleContext(Repaired(doc), QuerySvgRoot(Repaired(doc))),
                     [i \in 1..3 |-> "id1"]),
       LAMBDA made : Array([i \in 1..Len(made) |-> WithoutIds(made[i])]))

\* C17: a malformed transform or an unreadable path never makes the call fail and never
\* changes what the other nodes yield: the call raises only where parseSvg does, a
\* broken path yields no element, and every supported node that is not hidden is
\* converted to the elements it yields in the document where the malformed transforms
\* are absent (identity) and the broken paths are not there.
C17_NodeFailuresAreLocal ==
  /\ pc = "error" => (markup.parseError \/ QuerySvgRoot(markup.nodes) = 0)
  /\ pc = "done" =>
       /\ result.kind = "document"
       /\ \A n \in 1..Len(markup.nodes) :
            /\ IsBrokenPath(markup.nodes, n) => ElementsOf(n) = {}
            /\ (/\ ToLowerCase(markup.nodes[n].tag) \in SUPPORTED_TAGS
                /\ n # QuerySvgRoot(markup.nodes)
                /\ IsDescendantOf(markup.nodes, n, QuerySvgRoot(markup.nodes))
                /\ shouldConvertNode(markup.nodes, n))
               => ElementListOf(n) = ElementListRepaired(markup.nodes, n)

\* a rect with a malformed transform, inside a group with a malformed transform, after a
\* path that cannot be read: the rect is converted where it stands
C17_Witness ==
  /\ pc = "done"
  /\ Len(markup.nodes) = 4
  /\ IsBrokenPath(markup.nodes, 2)
  /\ markup.nodes[2].tag = Tag.path /\ HasAttribute(markup.nodes, 2, Attr.d)
  /\ HasMalformedTransform(markup.nodes, 3)
  /\ markup.nodes[3].tag = Tag.g
  /\ HasMalformedTransform(markup.nodes, 4)
  /\ markup.nodes[4].parent = 3
  /\ Len(result.elements) = 1
  /\ result.elements[1].x = 1 /\ result.elements[1].y = 2
  /\ result.elements[1].width = 4 /\ result.elements[1].height = 3

-----------------------------------------------------------------------------
(* Claims checked under SpecTui: the terminal UI *)

\* the last event was a press of c
PressedC == observed.event \in {"c, nothing to copy", "c, copy failed", "c, copying"}

\* a press of c hands to copyToClipboard the JSON of the last conversion that succeeded
\* since the start or the last r, and when there is none it hands over nothing and sets
\* the status to error
CopiesTheLatestSuccess ==
  PressedC =>
    IF observed.lastSuccess = NoJson
      THEN observed.copied = NoJson /\ state.status = "error"
      ELSE observed.copied = observed.lastSuccess

\* an enter that converts nothing, or whose conversion fails, leaves latestJson and
\* latestElementCount as they were
FailureKeepsTheResult ==
  observed'.event \in {"convert failed", "nothing to convert", "enter while busy"} =>
    /\ state'.latestJson = state.latestJson
    /\ state'.latestElementCount = state.latestElementCount

\* C18: after any sequence of paste, enter, c and r events, c copies exactly the JSON
\* of the most recent successful conversion since the last reset; a conversion that
\* fails leaves latestJson and latestElementCount unchanged; and when no conversion has
\* succeeded since the start or the last reset, c invokes no clipboard copy and sets
\* the status to error.
C18_CopiesTheLatestResult ==
  /\ []CopiesTheLatestSuccess
  /\ [][FailureKeepsTheResult]_vars

\* c is pressed after a conversion of two elements, a later paste and a conversion of
\* that paste which failed: the earlier JSON is handed to pbcopy
C18_Witness ==
  /\ observed.event = "c, copying"
  /\ observed.copied = observed.lastSuccess
  /\ observed.copied # NoJson
  /\ state.latestJson = observed.copied
  /\ state.latestElementCount = 2
  /\ state.rawInput = <<"h", "e", "l", "l", "o">>
  /\ state.clipboardMessage = Copied

\* the copy of a conversion's JSON failed in the last event
CopyOfConversionFailed == observed.event = "converted, copy failed"

\* what C19 says of every field but latestJson
ErrorIsShown ==
  /\ state.status = "error"
  /\ observed.message # EmptyStr
  /\ state.clipboardMessage = observed.message
  /\ ~isBusy

C20_ResetStaysUntilNextEvent ==
  observed.untouchedSinceReset =>
    /\ state.rawInput = EmptyStr
    /\ state.latestJson = NoJson
    /\ state.latestElementCount = 0
    /\ state.status = "idle"
    /\ state.clipboardMessage = EmptyStr

\* the reset itself: what r leaves behind
ResetClearsState ==
  observed.event = "reset" =>
    /\ state.rawInput = EmptyStr
    /\ state.latestJson = NoJson
    /\ state.latestElementCount = 0
    /\ state.status = "idle"
    /\ state.clipboardMessage = EmptyStr

\* a conversion is in flight: convertCurrentInput waits for readFile or for pbcopy
InFlight == converting.at # "nowhere"

\* isBusy is true exactly while a conversion is in flight
BusyWhileInFlight == isBusy <=> InFlight

\* the last event ended a conversion: by success, by conversion error, by clipboard error
ConversionEnded ==
  observed.event \in {"convert failed", "converted, copied", "converted, copy failed"}

\* a conversion that ends leaves isBusy false
EndedLeavesIdle == ConversionEnded => ~isBusy /\ ~InFlight

\* an enter while isBusy is true changes no state and leaves the conversion in flight
\* where it is; the conversion in flight is the only one: it goes on from readFile to
\* pbcopy or ends, and none starts beside it
OnlyOneInFlight ==
  /\ observed'.event = "enter while busy" =>
       /\ isBusy /\ isBusy'
       /\ state' = state
       /\ converting' = converting
  /\ isBusy =>
       \/ converting' = converting /\ isBusy' /\ ~ConversionEnded'
       \/ converting.at = "readFile" /\ converting'.at = "pbcopy" /\ isBusy'
            /\ observed'.event = "converted"
       \/ ~InFlight' /\ ~isBusy' /\ ConversionEnded'
  /\ (~isBusy /\ isBusy') => observed'.event \in {"reading", "converted"}

\* C29: in the TUI at most one conversion is in flight at any time and isBusy is true
\* exactly while one is: pressing enter while isBusy is true changes no state and starts
\* no second conversion, and every conversion that ends, by success, by conversion
\* error or by clipboard error, leaves isBusy false so that a later enter can start a
\* new conversion.
C29_OneConversionAtATime ==
  /\ [](BusyWhileInFlight /\ EndedLeavesIdle)
  /\ [][OnlyOneInFlight]_vars

\* enter was pressed while a conversion waited for pbcopy, and nothing changed
C29_Witness ==
  /\ observed.event = "enter while busy"
  /\ isBusy
  /\ converting.at = "pbcopy"
  /\ state.status = "success"

\* a conversion succeeded and ended, and a later enter started the conversion of a file
C29_SecondConversionWitness ==
  /\ observed.event = "reading"
  /\ isBusy
  /\ converting.at = "readFile"
  /\ observed.lastSuccess # NoJson

-----------------------------------------------------------------------------
(* Claims checked under SpecOrder: the order of the cascade *)

\* step 3: the value of the property in the rule of the first class of the node's class
\* list that declares it, Null when there is none
FirstDeclaringClass(doc, n, context, property) ==
  IF ~HasAttribute(doc, n, Attr.class) THEN Null
  ELSE With(ClassNames(GetAttribute(doc, n, Attr.class)), LAMBDA list :
    With({k \in 1..Len(list) :
            /\ list[k] \in DOMAIN context.classStyles
            /\ property \in DOMAIN context.classStyles[list[k]]}, LAMBDA declaring :
      IF declaring = {} THEN Null
      ELSE context.classStyles[list[SetMin(declaring)]][property]))

\* the values the four steps find for the property, in the order of the claim
StepsOf(doc, n, context, property) ==
  <<getInlineStyleValue(doc, n, property),
    GetAttribute(doc, n, property),
    FirstDeclaringClass(doc, n, context, property),
    getInheritedPresentationValue(doc, n, property)>>

\* the first step that finds a value (5: none does)
FirstFound(steps) ==
  SetMin({k \in 1..Len(steps) : steps[k] # Null} \cup {Len(steps) + 1})

\* C21: getPresentationValue returns the first value found in the order (1) the node's
\* inline style declaration, (2) its direct attribute, (3) the rule of the first class
\* of its class list that declares the property, (4) the ancestor cascade, and null
\* when no step finds one; a value found at an earlier step is not overridden by a
\* later step.
C21_FirstStepWins ==
  StyleContextBuilt =>
    \A n \in 1..Len(markup.nodes) : \A property \in {Attr.fill, Attr.stroke} :
      With(StepsOf(markup.nodes, n, styleContext, property), LAMBDA steps :
        getPresentationValue(markup.nodes, n, styleContext, property) =
          IF FirstFound(steps) > Len(steps) THEN Null ELSE steps[FirstFound(steps)])

\* a rect with fill declared inline, as an attribute, by both of its classes and by its
\* parent and grandparent, all different: the inline value is returned and is the
\* background colour of the rectangle
C21_Witness ==
  /\ pc = "done"
  /\ Len(markup.nodes) = 5
  /\ StepsOf(markup.nodes, 5, styleContext, Attr.fill) = <<<<"i">>, <<"a">>, <<"d">>, <<"p">>>>
  /\ getPresentationValue(markup.nodes, 5, styleContext, Attr.fill) = <<"i">>
  /\ getPresentationValue(markup.nodes, 5, styleContext, Attr.stroke) = <<"e">>
  /\ Len(elements) = 1
  /\ elements[1].backgroundColor = <<"i">>

RECURSIVE InlineThenAttributeFrom(_, _, _)
\* the ancestor step as the specification states it: from the node current upward to the
\* root, at each node the inline style and then the direct attribute
InlineThenAttributeFrom(doc, current, property) ==
  IF current = 0 THEN Null
  ELSE IF ~Falsy(getInlineStyleValue(doc, current, property))
    THEN getInlineStyleValue(doc, current, property)
  ELSE IF ~Falsy(GetAttribute(doc, current, property))
    THEN GetAttribute(doc, current, property)
  ELSE IF ToLowerCase(TagName(doc, current)) = Tag.svg THEN Null
  ELSE InlineThenAttributeFrom(doc, ParentElement(doc, current), property)

\* C22: in the ancestor step, ancestors are visited from the parent upward, stopping at
\* the root, and at each ancestor the inline style is checked before the direct
\* attribute: when one ancestor declares the property both ways with different values,
\* the inline style value is the one returned.
C22_AncestorInlineStyleFirst ==
  StyleContextBuilt =>
    \A n \in 1..Len(markup.nodes) : \A property \in {Attr.fill, Attr.stroke} :
      getInheritedPresentationValue(markup.nodes, n, property) =
        InlineThenAttributeFrom(markup.nodes, ParentElement(markup.nodes, n), property)

\* ancestors are visited from the parent upward to the root, and the first ancestor that
\* declares the property, as an attribute or inline, decides
NearestDeclaringAncestorDecides ==
  StyleContextBuilt =>
    \A n \in 1..Len(markup.nodes) : \A property \in {Attr.fill, Attr.stroke} :
      With({m \in 1..Len(markup.nodes) :
              /\ IsDescendantOf(markup.nodes, n, m)
              /\ \/ ~Falsy(GetAttribute(markup.nodes, m, property))
                 \/ ~Falsy(getInlineStyleValue(markup.nodes, m, property))}, LAMBDA declaring :
        IF declaring = {}
          THEN getInheritedPresentationValue(markup.nodes, n, property) = Null
          ELSE getInheritedPresentationValue(markup.nodes, n, property) \in
                 {GetAttribute(markup.nodes, SetMax(declaring), property),
                  getInlineStyleValue(markup.nodes, SetMax(declaring), property)})

-----------------------------------------------------------------------------
(* Claims checked under SpecHoles: which subpaths are holes *)

\* the path converted last, whose subpaths are convertedSubpaths (0: none yet)
LastPath ==
  IF cursor > 1 /\ ToLowerCase(TagName(markup.nodes, nodes[cursor - 1])) = Tag.path
    THEN nodes[cursor - 1] ELSE 0

\* the points of subpath i where they lie
PlacedSubpath(i) ==
  Array([p \in 1..Len(convertedSubpaths[i].relativePoints) |->
           <<convertedSubpaths[i].x + convertedSubpaths[i].relativePoints[p][1],
             convertedSubpaths[i].y + convertedSubpaths[i].relativePoints[p][2]>>])

\* the bounding box of subpath i: <<minX, minY, maxX, maxY>>
BoxOf(i) ==
  <<SetMin(Xs(PlacedSubpath(i))), SetMin(Ys(PlacedSubpath(i))),
    SetMax(Xs(PlacedSubpath(i))), SetMax(Ys(PlacedSubpath(i)))>>

BoxArea(box) == (box[3] - box[1]) * (box[4] - box[2])

\* the bbox of subpath i is contained in that of subpath c: its centre lies within c's
\* bbox expanded by 2 units, and its area is below 90% of the area of c's bbox
BoxWithin(i, c) ==
  /\ BoxOf(i)[1] + BoxOf(i)[3] >= 2 * (BoxOf(c)[1] - 2)
  /\ BoxOf(i)[1] + BoxOf(i)[3] <= 2 * (BoxOf(c)[3] + 2)
  /\ BoxOf(i)[2] + BoxOf(i)[4] >= 2 * (BoxOf(c)[2] - 2)
  /\ BoxOf(i)[2] + BoxOf(i)[4] <= 2 * (BoxOf(c)[4] + 2)
  /\ 10 * BoxArea(BoxOf(i)) < 9 * BoxArea(BoxOf(c))

\* the largest-area subpath, the first of them in subpath order when areas tie
LargestSubpath ==
  CHOOSE i \in 1..Len(convertedSubpaths) :
    /\ \A j \in 1..Len(convertedSubpaths) : AreaOf(j) <= AreaOf(i)
    /\ \A j \in 1..(i - 1) : AreaOf(j) < AreaOf(i)

\* the fill rule in effect for the path is evenodd
EvenOddInEffect(doc, n) == ToLowerCase(Trim(getPathFillRule(doc, n))) = Value.evenodd

\* subpath c makes subpath i a hole
MakesHole(i, c) ==
  /\ c # i
  /\ BoxWithin(i, c)
  /\ AreaOf(i) < AreaOf(c)
  /\ \/ EvenOddInEffect(markup.nodes, LastPath)
     \/ convertedSubpaths[i].windingDirection # convertedSubpaths[c].windingDirection
     \/ c = LargestSubpath

\* C24: for a list of two or more subpaths, a subpath other than the largest-area one is
\* marked a hole exactly when some other subpath C exists such that its bbox is
\* contained in C's, its area is strictly smaller than C's, and the windings are
\* compatible (the fill rule is evenodd, or the two windings differ, or C is the
\* largest-area subpath); the largest-area one is not marked; and the points, origin
\* and dimensions of every subpath are what buildSubpathData computed.
C24_HoleExactlyWhenContained ==
  (LastPath # 0 /\ Len(convertedSubpaths) >= 2) =>
    /\ \A i \in 1..Len(convertedSubpaths) :
         convertedSubpaths[i].isHole <=>
           /\ i # LargestSubpath
           /\ \E c \in 1..Len(convertedSubpaths) : MakesHole(i, c)
    /\ With(buildSubpathData(markup.nodes[LastPath].attrs[Attr.d].pathPoints,
                             getAccumulatedTransform(markup.nodes, LastPath)),
            LAMBDA built :
         /\ Len(built) = Len(convertedSubpaths)
         /\ \A i \in 1..Len(built) :
              /\ convertedSubpaths[i].relativePoints = built[i].relativePoints
              /\ convertedSubpaths[i].x = built[i].x
              /\ convertedSubpaths[i].y = built[i].y
              /\ convertedSubpaths[i].width = built[i].width
              /\ convertedSubpaths[i].height = built[i].height
              /\ ~built[i].isHole)

\* three subpaths under nonzero: the third lies in the second, which is not the largest,
\* and not in the first; it winds the other way than the second and is marked a hole
C24_Witness ==
  /\ LastPath # 0
  /\ Len(convertedSubpaths) = 3
  /\ ~EvenOddInEffect(markup.nodes, LastPath)
  /\ LargestSubpath = 1
  /\ BoxWithin(3, 2) /\ ~BoxWithin(3, 1)
  /\ convertedSubpaths[3].windingDirection # convertedSubpaths[2].windingDirection
  /\ convertedSubpaths[3].isHole
  /\ ~convertedSubpaths[2].isHole

\* as C24_Witness with the third winding as the second: it is not a hole
SameWindingInSmallerContainer ==
  /\ LastPath # 0
  /\ Len(convertedSubpaths) = 3
  /\ ~EvenOddInEffect(markup.nodes, LastPath)
  /\ LargestSubpath = 1
  /\ BoxWithin(3, 2) /\ ~BoxWithin(3, 1)
  /\ AreaOf(3) < AreaOf(2)
  /\ convertedSubpaths[3].windingDirection = convertedSubpaths[2].windingDirection
  /\ ~convertedSubpaths[3].isHole

-----------------------------------------------------------------------------
(* Claims checked under SpecStroke: which subpaths of a path are emitted, and as what *)

\* the elements made from subpath i of the path converted last
EmittedFor(i) == {k \in 1..Len(emittedFrom) : emittedFrom[k] = <<LastPath, i>>}

\* the resolved stroke colour of the path is not "transparent"
StrokeColourShows ==
  getStrokeColor(markup.nodes, LastPath, styleContext) # Value.transparent

\* the resolved stroke-width of the path, 1 when there is none
ResolvedStrokeWidth ==
  getNumericPresentationValue(markup.nodes, LastPath, styleContext, Attr.stroke_width, 1)

\* what C25 says of the subpaths of the path converted last, for a given meaning of
\* "the stroke is visible"
SubpathsEmittedFor(strokeVisible) ==
  \A i \in 1..Len(convertedSubpaths) :
    IF ~convertedSubpaths[i].isClosed
      THEN /\ Cardinality(EmittedFor(i)) = (IF strokeVisible THEN 1 ELSE 0)
           /\ \A k \in EmittedFor(i) :
                IF shouldUseArrowType(markup.nodes, LastPath, styleContext)
                  THEN elements[k].type = "arrow"
                  ELSE /\ elements[k].type = "line"
                       /\ elements[k].backgroundColor = Value.transparent
    ELSE IF getFillColor(markup.nodes, LastPath, styleContext) = Value.transparent
      THEN /\ Cardinality(EmittedFor(i)) = (IF strokeVisible THEN 1 ELSE 0)
           /\ \A k \in EmittedFor(i) :
                /\ elements[k].type = "line"
                /\ elements[k].backgroundColor = Value.transparent
                /\ elements[k].points[Len(elements[k].points)] = elements[k].points[1]
    ELSE /\ Cardinality(EmittedFor(i)) = 1
         /\ \A k \in EmittedFor(i) :
              /\ elements[k].type = "draw"
              /\ ~strokeVisible => elements[k].strokeWidth = 0

\* C25 as the specification states it: stroke visibility means the resolved stroke
\* colour is not "transparent"; an open subpath is emitted exactly when the stroke is
\* visible (an arrow with markers, else a line with transparent fill), a closed subpath
\* whose fill is "transparent" exactly when the stroke is visible, as a closed line with
\* transparent fill, and a closed subpath with a visible fill always, as a draw element,
\* with strokeWidth 0 when the stroke is not visible.
C25_EmittedWhenStrokeColourShows ==
  LastPath # 0 => SubpathsEmittedFor(StrokeColourShows)

\* C25, amended: the stroke is visible when the resolved stroke colour is not
\* "transparent" and the resolved stroke-width is above 0.
C25_EmittedWhenStrokeShowsAndHasWidth ==
  LastPath # 0 => SubpathsEmittedFor(StrokeColourShows /\ ResolvedStrokeWidth > 0)

\* a red path of width 2 without fill, an open subpath and a closed one: two lines, the
\* second closed
C25_Witness ==
  /\ pc = "done"
  /\ LastPath # 0
  /\ Len(convertedSubpaths) = 2
  /\ ~convertedSubpaths[1].isClosed /\ convertedSubpaths[2].isClosed
  /\ StrokeColourShows /\ ResolvedStrokeWidth = 2
  /\ ~shouldUseArrowType(markup.nodes, LastPath, styleContext)
  /\ getFillColor(markup.nodes, LastPath, styleContext) = Value.transparent
  /\ Len(elements) = 2
  /\ elements[1].type = "line" /\ elements[2].type = "line"
  /\ Len(elements[2].points) = Len(convertedSubpaths[2].relativePoints) + 1

\* a red path of width 0 without fill: nothing is emitted
C25_ZeroWidthWitness ==
  /\ pc = "done"
  /\ LastPath # 0
  /\ StrokeColourShows /\ ResolvedStrokeWidth = 0
  /\ getFillColor(markup.nodes, LastPath, styleContext) = Value.transparent
  /\ elements = <<>>

-----------------------------------------------------------------------------
(* Claims checked under SpecHidden: nodes that are not rendered *)

\* the style context of the document under conversion
ContextOf(doc) == createStyleContext(doc, QuerySvgRoot(doc))

\* the values the node gives the property, by inline style, by attribute and by the
\* rules of its classes, trimmed and lower-cased
DeclaredValues(doc, n, property) ==
  {ToLowerCase(Trim(v)) :
     v \in {getInlineStyleValue(doc, n, property), GetAttribute(doc, n, property),
            getClassStyleValue(doc, n, ContextOf(doc), property)} \ {Null}}

\* the value the node resolves the property to: its inline style, else its attribute,
\* else the first of its classes that declares it
ResolvedHere(doc, n, property) ==
  Coalesce(getInlineStyleValue(doc, n, property),
    Coalesce(GetAttribute(doc, n, property),
      getClassStyleValue(doc, n, ContextOf(doc), property)))

IsNumberAtMostZero(v) ==
  v # Null /\ With(ParseFloat(v), LAMBDA number : ~number.nan /\ number.v <= 0)

\* the node resolves display to none, visibility to hidden, or opacity to a number <= 0
SuppressedHere(doc, n) ==
  \/ With(ResolvedHere(doc, n, Attr.display), LAMBDA display :
       display # Null /\ ToLowerCase(Trim(display)) = Value.none)
  \/ With(ResolvedHere(doc, n, Attr.visibility), LAMBDA visibility :
       visibility # Null /\ ToLowerCase(Trim(visibility)) = Value.hidden)
  \/ IsNumberAtMostZero(ResolvedHere(doc, n, Attr.opacity))

\* some declaration of the node, resolved or not, is one that hides
DeclaresHiding(doc, n) ==
  \/ Value.none \in DeclaredValues(doc, n, Attr.display)
  \/ Value.hidden \in DeclaredValues(doc, n, Attr.visibility)
  \/ \E v \in DeclaredValues(doc, n, Attr.opacity) : IsNumberAtMostZero(v)

RECURSIVE SelfOrAncestors(_, _)
SelfOrAncestors(doc, n) ==
  IF n = 0 THEN {} ELSE {n} \cup SelfOrAncestors(doc, ParentElement(doc, n))

\* a node of a supported tag
SupportedNodes(doc) == {n \in 1..Len(doc) : ToLowerCase(TagName(doc, n)) \in SUPPORTED_TAGS}

\* no element comes from a node that is suppressed, or has a suppressed ancestor, where
\* the sources tell which declarations count; a supported node without any declaration
\* that hides, on itself and on its ancestors, and without a non-rendered ancestor, is
\* in the list of the nodes that are converted
HiddenNeverEmitted(sources(_, _)) ==
  /\ \A k \in 1..Len(emittedFrom) :
       \A a \in SelfOrAncestors(markup.nodes, emittedFrom[k][1]) : ~sources(markup.nodes, a)
  /\ pc \in {"convert", "done"} =>
       \A n \in SupportedNodes(markup.nodes) :
         (/\ \A a \in SelfOrAncestors(markup.nodes, n) : ~DeclaresHiding(markup.nodes, a)
          /\ ~hasNonRenderedAncestor(markup.nodes, n))
         => /\ \E c \in 1..Len(nodes) : nodes[c] = n
            /\ pc = "done" => ElementsOf(n) # {}

\* C27: a supported node contributes no output element whenever it or any of its
\* ancestors has a resolved display of "none", a resolved visibility of "hidden", or a
\* numeric opacity <= 0, given as attribute, inline style or class rule, even when the
\* node itself declares values that would make it visible; a node with no such
\* ancestor-or-self and no non-rendered ancestor is dispatched to its synthesizer.
C27_HiddenByAnyDeclarationNeverEmitted == HiddenNeverEmitted(SuppressedHere)

\* the node resolves display, visibility or opacity to a hiding value by its inline
\* style or by its attribute
SuppressedByStyleOrAttribute(doc, n) ==
  /\ SuppressedHere(doc, n)
  /\ \/ Coalesce(getInlineStyleValue(doc, n, Attr.display), GetAttribute(doc, n, Attr.display)) # Null
     \/ Coalesce(getInlineStyleValue(doc, n, Attr.visibility), GetAttribute(doc, n, Attr.visibility)) # Null
     \/ Coalesce(getInlineStyleValue(doc, n, Attr.opacity), GetAttribute(doc, n, Attr.opacity)) # Null

\* C27 without the class rules: it holds of inline styles and attributes
HiddenByStyleOrAttributeNeverEmitted == HiddenNeverEmitted(SuppressedByStyleOrAttribute)

\* a rect that declares itself visible in a group hidden by an attribute: converted to nothing
HiddenGroupWitness ==
  /\ pc = "done"
  /\ elements = <<>>
  /\ Len(markup.nodes) = 4
  /\ markup.nodes[4].attrs = ShownRect.attrs
  /\ SuppressedByStyleOrAttribute(markup.nodes, 3)

-----------------------------------------------------------------------------
(* Claims checked under SpecGradient: colours that refer to a gradient *)

\* the stop-color a <stop> declares: its attribute when it has one, else its inline style
StopColorOf(doc, s) ==
  IF HasAttribute(doc, s, Attr.stop_color) THEN GetAttribute(doc, s, Attr.stop_color)
  ELSE getInlineStyleValue(doc, s, Attr.stop_color)

\* the <stop> elements below the element g
StopsBelow(doc, g) ==
  {s \in 1..Len(doc) : TagName(doc, s) = Tag.stop /\ IsDescendantOf(doc, s, g)}

\* the elements the reference names: those whose id stands between "url(#" and ")"
ReferencedBy(doc, paint) ==
  {n \in 2..Len(doc) :
     HasAttribute(doc, n, Attr.id)
     /\ Trim(paint) = Value.urlHash \o GetAttribute(doc, n, Attr.id) \o <<")">>}

\* the colour of a paint: transparent for none, for a reference the stop-color of the
\* stop chosen among the stops of the referenced element, and the fallback when there
\* is no paint, no such element, or no stop to choose
ColourBy(doc, paint, fallback, Choose(_, _)) ==
  IF paint = Null THEN fallback
  ELSE IF paint = Value.none THEN Value.transparent
  ELSE IF ReferencedBy(doc, paint) = {} THEN fallback
  ELSE With(Choose(doc, SetMin(ReferencedBy(doc, paint))), LAMBDA stop :
         IF stop = 0 THEN fallback ELSE StopColorOf(doc, stop))

\* the first stop when it declares a stop-color (0: there is no stop, or the first
\* declares none)
FirstStopIfDeclaring(doc, g) ==
  IF StopsBelow(doc, g) = {} THEN 0
  ELSE IF Falsy(StopColorOf(doc, SetMin(StopsBelow(doc, g)))) THEN 0
  ELSE SetMin(StopsBelow(doc, g))

\* the first of the stops that declare a stop-color (0: none does)
FirstDeclaringStop(doc, g) ==
  With({s \in StopsBelow(doc, g) : ~Falsy(StopColorOf(doc, s))}, LAMBDA declaring :
    IF declaring = {} THEN 0 ELSE SetMin(declaring))

\* every element has the background colour and the stroke colour that its node's fill and
\* stroke attributes resolve to, with "#000000" and "transparent" as the fallbacks
PaintedBy(Choose(_, _)) ==
  \A k \in 1..Len(elements) :
    With(emittedFrom[k][1], LAMBDA n :
      /\ elements[k].backgroundColor =
           ColourBy(markup.nodes, GetAttribute(markup.nodes, n, Attr.fill), Value.black, Choose)
      /\ elements[k].strokeColor =
           ColourBy(markup.nodes, GetAttribute(markup.nodes, n, Attr.stroke), Value.transparent, Choose))

====
